---- MODULE Spec2Model ----
(***************************************************************************)
(* Workflow type-checker (AgentConfig.check_workflow) and executor         *)
(* (AgentConfig.run_workflow) of the agentic podcast pipeline.             *)
(*                                                                         *)
(* A configuration is a registry of agents (get_agents) and an ordered     *)
(* list of steps (get_workflow).  check_workflow walks the steps and       *)
(* builds the table defined_inputs (name -> class); run_workflow walks the *)
(* same steps and builds the table inputs (name -> value).                 *)
(***************************************************************************)
EXTENDS Integers, Sequences, FiniteSets, TLC

VARIABLES
    agents_dict,     \* self.get_agents(): agent name -> agent descriptor
    workflow,        \* self.get_workflow(): sequence of step dicts
    pc,              \* where the caller is
    defined_inputs,  \* check_workflow's table: name -> class
    ci,              \* check_workflow: 1-based position of the next step
    inputs,          \* run_workflow's table: name -> value
    ri,              \* run_workflow: step_number (0-based) of the next step
    iteration,       \* run_workflow: index of the next iteration of step ri
    agent_inputs,    \* run_workflow: the values resolved for step ri
    calls,           \* every agent_instance.run(...) call made so far, in order
    writes,          \* every assignment inputs[name] = ... made so far, in order
    error,           \* the exception that ended check_workflow or run_workflow
    result,          \* what run_workflow returned
    files,           \* the output directory: output_file -> the JSON document in it
    llm_calls,       \* how many times llm_call.call(...) has been invoked
    execution,       \* how many times run_workflow has been entered
    finished,        \* the outcome of every run_workflow call that has ended
    trace,           \* every agent run of every run_workflow call, with its outcome
    input_text,      \* run_workflow: its parameter input_text
    caller,          \* how often run_workflow is called, and with which texts
    max_retries,     \* GPT4O.call: its parameter max_retries
    initial_wait,    \* GPT4O.call: its parameter initial_wait
    attempt,         \* GPT4O.call: the loop variable of "for attempt in range(...)"
    wait_time,       \* GPT4O.call: the local wait_time
    call_pc,         \* GPT4O.call: where the call stands
    requests,        \* GPT4O.call: the outcome of every request made, in order
    slept,           \* GPT4O.call: the argument of every time.sleep made, in order
    call_result      \* GPT4O.call: what the call returned

vars == <<agents_dict, workflow, pc, defined_inputs, ci, inputs, ri, iteration,
          agent_inputs, calls, writes, error, result, files, llm_calls, execution,
          finished, trace, input_text, caller, max_retries, initial_wait, attempt, wait_time, call_pc,
          requests, slept, call_result>>

(***************************************************************************)
(* Bounds of the exploration.                                              *)
(***************************************************************************)
MaxSteps == 3      \* longest generated workflow
IterN == 2         \* the iterate count used by the generated iterated steps
MaxRetries == 5    \* the largest max_retries GPT4O.call is called with
MaxReruns == 3     \* run_workflow calls over one output directory, in RerunSpec
MaxRuns == 2       \* run_workflow calls over one output directory

(***************************************************************************)
(* infotypes.py: the classes, and Python's issubclass over them.           *)
(* "type" is the metaclass every one of these classes is an instance of.   *)
(***************************************************************************)
InfoTypes == {"SourceText", "Summary", "Narrative", "Acts", "IndepthSummary",
              "Transcript", "PersonalizedTranscript", "Bool"}

Base(c) ==
    CASE c \in {"Narrative", "Acts", "IndepthSummary"} -> "Summary"
      [] c = "PersonalizedTranscript" -> "Transcript"
      [] OTHER -> "object"

RECURSIVE issubclass(_, _)
issubclass(c, d) ==
    IF c = d THEN TRUE
    ELSE IF c = "object" THEN FALSE
    ELSE issubclass(Base(c), d)

\* type(c) and c.__class__ for a class object c of infotypes
TypeOf(c) == "type"

(***************************************************************************)
(* agents.py: what check_workflow and run_workflow read of an agent class: *)
(* expected_input_types, output_types, and how run takes its inputs apart  *)
(* (unpack = TRUE: "a, b, ... = inputs", which needs the exact length;     *)
(* FALSE: inputs[0], inputs[1], ..., which needs at least that many), and  *)
(* what run makes of the LLM's response:                                   *)
(*   "text"    the response is the output, written to output_file and then *)
(*             to the dev file;                                            *)
(*   "acts"    the response is split at its 'Act_1:' .. 'Act_3:' labels    *)
(*             before anything is written;                                 *)
(*   "analogy" the response is formatted into a string behind the input    *)
(*             summary;                                                    *)
(*   "verdict" the response is read as yes or no, giving a Bool.           *)
(***************************************************************************)
NarrativeAgent ==
    [expected_input_types |-> <<"SourceText">>,
     output_types |-> <<"Narrative">>, unpack |-> FALSE, run |-> "text"]
ActAgent ==
    [expected_input_types |-> <<"SourceText", "Narrative">>,
     output_types |-> <<"Acts", "Acts", "Acts">>, unpack |-> FALSE, run |-> "acts"]
ContextualizeAgent ==
    [expected_input_types |-> <<"SourceText", "Acts">>,
     output_types |-> <<"IndepthSummary">>, unpack |-> FALSE, run |-> "text"]
AnalogyAgent ==
    [expected_input_types |-> <<"IndepthSummary">>,
     output_types |-> <<"IndepthSummary">>, unpack |-> FALSE, run |-> "analogy"]
TranscriptAgent ==
    [expected_input_types |-> <<"Acts", "IndepthSummary", "Acts", "IndepthSummary",
                                "Acts", "IndepthSummary">>,
     output_types |-> <<"Transcript">>, unpack |-> TRUE, run |-> "text"]
CombineTranscriptsAgent ==
    [expected_input_types |-> <<"Transcript", "Transcript", "Transcript">>,
     output_types |-> <<"Transcript">>, unpack |-> FALSE, run |-> "text"]
PersonalizeAgent ==
    [expected_input_types |-> <<"Transcript">>,
     output_types |-> <<"Transcript">>, unpack |-> FALSE, run |-> "text"]
DoubleTranscriptAgent ==
    [expected_input_types |-> <<"Transcript">>,
     output_types |-> <<"Transcript">>, unpack |-> FALSE, run |-> "text"]
SimpleTranscriptAgent ==
    [expected_input_types |-> <<"Acts">>,
     output_types |-> <<"Transcript">>, unpack |-> FALSE, run |-> "text"]

\* Two further Agent subclasses a configuration may register: one that
\* expects the base class Summary and produces a Bool (the class a
\* condition variable must have), one that produces a subclass of Transcript.
JudgeAgent ==
    [expected_input_types |-> <<"Summary">>,
     output_types |-> <<"Bool">>, unpack |-> FALSE, run |-> "verdict"]
TailorAgent ==
    [expected_input_types |-> <<"Transcript">>,
     output_types |-> <<"PersonalizedTranscript">>, unpack |-> FALSE, run |-> "text"]

\* IraPod.get_agents()
IraPodAgents ==
    [a \in {"NarrativeAgent", "ActAgent", "ContextualizeAgent", "AnalogyAgent",
            "TranscriptAgent", "CombineTranscriptsAgent", "DoubleTranscriptAgent",
            "PersonalizeAgent"} |->
        CASE a = "NarrativeAgent" -> NarrativeAgent
          [] a = "ActAgent" -> ActAgent
          [] a = "ContextualizeAgent" -> ContextualizeAgent
          [] a = "AnalogyAgent" -> AnalogyAgent
          [] a = "TranscriptAgent" -> TranscriptAgent
          [] a = "CombineTranscriptsAgent" -> CombineTranscriptsAgent
          [] a = "DoubleTranscriptAgent" -> DoubleTranscriptAgent
          [] a = "PersonalizeAgent" -> PersonalizeAgent]

\* get_agents() of the second configuration explored: a short chain of the
\* shipped agents plus the two above.  ContextualizeAgent is not registered.
SampleAgents ==
    [a \in {"NarrativeAgent", "ActAgent", "SimpleTranscriptAgent",
            "PersonalizeAgent", "JudgeAgent", "TailorAgent"} |->
        CASE a = "NarrativeAgent" -> NarrativeAgent
          [] a = "ActAgent" -> ActAgent
          [] a = "SimpleTranscriptAgent" -> SimpleTranscriptAgent
          [] a = "PersonalizeAgent" -> PersonalizeAgent
          [] a = "JudgeAgent" -> JudgeAgent
          [] a = "TailorAgent" -> TailorAgent]

(***************************************************************************)
(* Steps are Python dicts: records whose keys 'condition' and 'iterate'    *)
(* may be absent.  An 'iterate' value is a Python object: pytype is its    *)
(* class and int its value when it is an int.                              *)
(***************************************************************************)
Step(agent, ins, outs) == [agent |-> agent, inputs |-> ins, outputs |-> outs]
PyInt(n) == [pytype |-> "int", int |-> n]
WithIterate(step, value) ==
    [k \in DOMAIN step \cup {"iterate"} |-> IF k = "iterate" THEN value ELSE step[k]]
Iterated(step, n) == WithIterate(step, PyInt(n))
Conditioned(step, cond) ==
    [k \in DOMAIN step \cup {"condition"} |-> IF k = "condition" THEN cond ELSE step[k]]

\* f"{output_name}_iter{i}"
IterName(output_name, i) == output_name \o "_iter" \o ToString(i)

\* IraPod.get_workflow()
IraPodWorkflow == <<
    Step("NarrativeAgent", <<"source_text">>, <<"narrative_output">>),
    Step("ActAgent", <<"source_text", "narrative_output">>,
         <<"acts_output1", "acts_output2", "acts_output3">>),
    Step("ContextualizeAgent", <<"source_text", "acts_output1">>, <<"contextualized_act1">>),
    Step("ContextualizeAgent", <<"source_text", "acts_output2">>, <<"contextualized_act2">>),
    Step("ContextualizeAgent", <<"source_text", "acts_output3">>, <<"contextualized_act3">>),
    Step("AnalogyAgent", <<"contextualized_act1">>, <<"analogies_act1">>),
    Step("AnalogyAgent", <<"contextualized_act2">>, <<"analogies_act2">>),
    Step("AnalogyAgent", <<"contextualized_act3">>, <<"analogies_act3">>),
    Iterated(Step("TranscriptAgent",
                  <<"acts_output1", "analogies_act1", "acts_output2", "analogies_act2",
                    "acts_output3", "analogies_act3">>,
                  <<"transcript_draft">>), 3),
    Step("CombineTranscriptsAgent",
         <<"transcript_draft_iter0", "transcript_draft_iter1", "transcript_draft_iter2">>,
         <<"combined_transcript">>),
    Step("DoubleTranscriptAgent", <<"combined_transcript">>, <<"double_transcript">>),
    Step("PersonalizeAgent", <<"double_transcript">>, <<"final_transcript">>) >>

(***************************************************************************)
(* The generated workflows: every sequence of 1..MaxSteps steps of         *)
(* StepPool, run against SampleAgents.  The pool holds the steps of a      *)
(* well-formed chain and one step for each way a step can go wrong.        *)
(***************************************************************************)
StepPool == {
    \* a well-typed chain: source_text -> n -> a1,a2,a3 -> final_transcript
    Step("NarrativeAgent", <<"source_text">>, <<"n">>),
    Step("ActAgent", <<"source_text", "n">>, <<"a1", "a2", "a3">>),
    Step("SimpleTranscriptAgent", <<"a1">>, <<"final_transcript">>),
    \* iterated steps, and consumers of a derived and of a bare name
    Iterated(Step("NarrativeAgent", <<"source_text">>, <<"d">>), IterN),
    Iterated(Step("ActAgent", <<"source_text", "n">>, <<"a1", "a2", "a3">>), IterN),
    Step("PersonalizeAgent", <<"d_iter0">>, <<"final_transcript">>),
    Step("PersonalizeAgent", <<"d">>, <<"final_transcript">>),
    Step("TailorAgent", <<"d_iter0">>, <<"final_transcript">>),
    \* iterate values that are not positive integers: 0, -1 and the string '2'
    Iterated(Step("NarrativeAgent", <<"source_text">>, <<"d">>), 0),
    Iterated(Step("NarrativeAgent", <<"source_text">>, <<"d">>), -1),
    WithIterate(Step("NarrativeAgent", <<"source_text">>, <<"d">>),
                [pytype |-> "str", str |-> "2"]),
    \* an iterated step whose first iteration stores under its own input name
    Iterated(Step("PersonalizeAgent", <<"d_iter0">>, <<"d">>), IterN),
    \* inputs of another class than the agent expects
    Step("PersonalizeAgent", <<"n">>, <<"final_transcript">>),
    Step("JudgeAgent", <<"n">>, <<"b">>),
    Step("PersonalizeAgent", <<"b">>, <<"final_transcript">>),
    \* the terminal name consumed, an output named like a derived name
    Step("PersonalizeAgent", <<"final_transcript">>, <<"d_iter0">>),
    \* a step that outputs its own, not yet bound, input
    Step("PersonalizeAgent", <<"d">>, <<"d">>),
    \* outputs that are already bound
    Step("ActAgent", <<"source_text", "n">>, <<"a1", "a1", "a2">>),
    Step("NarrativeAgent", <<"source_text">>, <<"source_text">>),
    \* too many and too few inputs, too many and too few outputs
    Step("NarrativeAgent", <<"source_text", "n">>, <<"n">>),
    Step("ActAgent", <<"source_text">>, <<"a1", "a2", "a3">>),
    Step("NarrativeAgent", <<"source_text">>, <<"n", "d">>),
    Step("ActAgent", <<"source_text", "n">>, <<"a1", "a2">>),
    \* an agent that is not registered
    Step("ContextualizeAgent", <<"source_text", "a1">>, <<"c1">>),
    \* conditions: on a Bool variable, on a variable of another class
    Conditioned(Step("PersonalizeAgent", <<"n">>, <<"final_transcript">>), [IF |-> "b"]),
    Conditioned(Step("SimpleTranscriptAgent", <<"a1">>, <<"final_transcript">>), [IF |-> "n"]),
    \* a WHILE condition on the step's own Bool output; conditions with two
    \* keys, with a key that is neither IF nor WHILE, and with no key
    Conditioned(Step("JudgeAgent", <<"n">>, <<"b">>), [WHILE |-> "b"]),
    Iterated(Conditioned(Step("JudgeAgent", <<"n">>, <<"b">>), [WHILE |-> "b"]), IterN),
    Conditioned(Step("JudgeAgent", <<"n">>, <<"b">>), [IF |-> "b", WHILE |-> "b"]),
    Conditioned(Step("JudgeAgent", <<"n">>, <<"b">>), [UNLESS |-> "b"]),
    Conditioned(Step("JudgeAgent", <<"n">>, <<"b">>), [key \in {} |-> "b"])
}

RECURSIVE SeqsUpTo(_, _)
SeqsUpTo(S, n) ==
    IF n = 0 THEN {<<>>}
    ELSE LET shorter == SeqsUpTo(S, n - 1)
         IN  shorter \cup {Append(w, s) : w \in shorter, s \in S}

Workflows == SeqsUpTo(StepPool, MaxSteps) \ {<<>>}

\* the (get_agents(), get_workflow()) pairs explored
Configs ==
    {[agents |-> IraPodAgents, workflow |-> IraPodWorkflow]}
    \cup {[agents |-> SampleAgents, workflow |-> w] : w \in Workflows}

(***************************************************************************)
(* check_workflow, one iteration of "for step in workflow".  Each part     *)
(* returns the table as it stands and the error raised ("" for none): a    *)
(* raise leaves the bindings made before it in the table.                  *)
(***************************************************************************)
NoError == ""
Checked(tbl, err) == [tbl |-> tbl, err |-> err]

\* line 92: any(issubclass(t, type(defined_type)) and issubclass(t, type(expected_type))
\*              for t in [defined_type.__class__, expected_type.__class__])
InputTypeMatches(defined_type, expected_type) ==
    \E t \in {TypeOf(defined_type), TypeOf(expected_type)} :
        issubclass(t, TypeOf(defined_type)) /\ issubclass(t, TypeOf(expected_type))

\* CheckInputs that raises for an input name that is not bound
RECURSIVE CheckInputsDeclared(_, _, _, _)
CheckInputsDeclared(tbl, step, agent, k) ==
    IF k > Len(step.inputs) THEN Checked(tbl, NoError)
    ELSE IF k > Len(agent.expected_input_types) THEN Checked(tbl, "IndexError")
    ELSE LET input_name == step.inputs[k]
             expected_type == agent.expected_input_types[k]
         IN  IF input_name \in DOMAIN tbl
             THEN IF ~InputTypeMatches(tbl[input_name], expected_type)
                  THEN Checked(tbl, "TypeMismatch")
                  ELSE CheckInputsDeclared(tbl, step, agent, k + 1)
             ELSE Checked(tbl, "UndefinedInput")

\* lines 87-95, from input position k on
RECURSIVE CheckInputs(_, _, _, _)
CheckInputs(tbl, step, agent, k) ==
    IF k > Len(step.inputs) THEN Checked(tbl, NoError)
    ELSE IF k > Len(agent.expected_input_types) THEN Checked(tbl, "IndexError")
    ELSE LET input_name == step.inputs[k]
             expected_type == agent.expected_input_types[k]
         IN  IF input_name \in DOMAIN tbl
             THEN IF ~InputTypeMatches(tbl[input_name], expected_type)
                  THEN Checked(tbl, "TypeMismatch")
                  ELSE CheckInputs(tbl, step, agent, k + 1)
             ELSE CheckInputs((input_name :> expected_type) @@ tbl, step, agent, k + 1)

\* CheckOutputs with the test of line 103 left out: a bound name is overwritten
RECURSIVE CheckOutputsOverwrite(_, _, _, _)
CheckOutputsOverwrite(tbl, step, agent, k) ==
    IF k > Len(step.outputs) THEN Checked(tbl, NoError)
    ELSE IF k > Len(agent.output_types) THEN Checked(tbl, "IndexError")
    ELSE CheckOutputsOverwrite(
            (step.outputs[k] :> agent.output_types[k])
               @@ [m \in DOMAIN tbl \ {step.outputs[k]} |-> tbl[m]],
            step, agent, k + 1)

\* step['outputs'].index(output_name): the first position holding the name
IndexOf(seq, x) == CHOOSE i \in 1..Len(seq) : seq[i] = x /\ \A j \in 1..(i - 1) : seq[j] # x

\* lines 102-105, from output position k on
RECURSIVE CheckOutputs(_, _, _, _)
CheckOutputs(tbl, step, agent, k) ==
    IF k > Len(step.outputs) THEN Checked(tbl, NoError)
    ELSE LET output_name == step.outputs[k]
         IN  IF output_name \in DOMAIN tbl
             THEN Checked(tbl, "AlreadyUsed")
             ELSE IF IndexOf(step.outputs, output_name) > Len(agent.output_types)
             THEN Checked(tbl, "IndexError")
             ELSE CheckOutputs(
                    (output_name :> agent.output_types[IndexOf(step.outputs, output_name)]) @@ tbl,
                    step, agent, k + 1)

\* CheckCondition without the test of the guard variable's class (lines 119-120)
CheckConditionAnyClass(tbl, step) ==
    IF "condition" \notin DOMAIN step THEN Checked(tbl, NoError)
    ELSE LET condition == step.condition
         IN  IF Cardinality(DOMAIN condition) # 1
                \/ ~\E key \in {"IF", "WHILE"} : key \in DOMAIN condition
             THEN Checked(tbl, "BadCondition")
             ELSE LET condition_key == CHOOSE key \in DOMAIN condition : TRUE
                      condition_var == condition[condition_key]
                  IN  IF condition_var \notin DOMAIN tbl
                      THEN Checked(tbl, "ConditionUndefined")
                      ELSE Checked(tbl, NoError)

\* lines 109-120
CheckCondition(tbl, step) ==
    IF "condition" \notin DOMAIN step THEN Checked(tbl, NoError)
    ELSE LET condition == step.condition
         IN  IF Cardinality(DOMAIN condition) # 1
                \/ ~\E key \in {"IF", "WHILE"} : key \in DOMAIN condition
             THEN Checked(tbl, "BadCondition")
             ELSE LET condition_key == CHOOSE key \in DOMAIN condition : TRUE
                      condition_var == condition[condition_key]
                  IN  IF condition_var \notin DOMAIN tbl
                      THEN Checked(tbl, "ConditionUndefined")
                      ELSE IF tbl[condition_var] # "Bool"
                      THEN Checked(tbl, "ConditionNotBool")
                      ELSE Checked(tbl, NoError)

\* range(iterate_count)
Range(n) == 0..(n - 1)

\* CheckIterate without the test of line 131: a bound derived name is rebound
RECURSIVE CheckIterateRebinding(_, _, _, _)
CheckIterateRebinding(tbl, step, k, i) ==
    IF k > Len(step.outputs) THEN Checked(tbl, NoError)
    ELSE IF i \notin Range(step.iterate.int) THEN CheckIterateRebinding(tbl, step, k + 1, 0)
    ELSE LET output_name == step.outputs[k]
             iter_output_name == IterName(output_name, i)
         IN  CheckIterateRebinding(
                (iter_output_name :> tbl[output_name])
                   @@ [m \in DOMAIN tbl \ {iter_output_name} |-> tbl[m]],
                step, k, i + 1)

\* lines 128-133, from output position k and iteration i on
RECURSIVE CheckIterate(_, _, _, _)
CheckIterate(tbl, step, k, i) ==
    IF k > Len(step.outputs) THEN Checked(tbl, NoError)
    ELSE IF i \notin Range(step.iterate.int) THEN CheckIterate(tbl, step, k + 1, 0)
    ELSE LET output_name == step.outputs[k]
             iter_output_name == IterName(output_name, i)
         IN  IF iter_output_name \in DOMAIN tbl
             THEN Checked(tbl, "IterAlreadyDefined")
             ELSE CheckIterate((iter_output_name :> tbl[output_name]) @@ tbl, step, k, i + 1)

\* CheckIterateKey with the registration of the derived names left out
CheckIterateKeySkipped(tbl, step) ==
    IF "iterate" \notin DOMAIN step THEN Checked(tbl, NoError)
    ELSE IF step.iterate.pytype # "int" THEN Checked(tbl, "IterateNotInt")
    ELSE Checked(tbl, NoError)

\* lines 123-133
CheckIterateKey(tbl, step) ==
    IF "iterate" \notin DOMAIN step THEN Checked(tbl, NoError)
    ELSE IF step.iterate.pytype # "int" THEN Checked(tbl, "IterateNotInt")
    ELSE CheckIterate(tbl, step, 1, 0)

\* line 84: the comparison of the numbers of inputs
InputCountMismatch(step, agent) == Len(step.inputs) # Len(agent.expected_input_types)

\* OutputCountMismatch with > in place of !=
OutputCountTooMany(step, agent) == Len(step.outputs) > Len(agent.output_types)

\* line 98: the comparison of the numbers of outputs
OutputCountMismatch(step, agent) == Len(step.outputs) # Len(agent.output_types)

\* CheckStepBody that passes over a step whose agent is not registered
CheckStepBodySkipping(tbl, step, agents) ==
    IF step.agent \notin DOMAIN agents THEN Checked(tbl, NoError)
    ELSE LET agent == agents[step.agent] IN
    IF InputCountMismatch(step, agent) THEN Checked(tbl, "InputCount")
    ELSE LET ins == CheckInputs(tbl, step, agent, 1) IN
    IF ins.err # NoError THEN ins
    ELSE IF OutputCountMismatch(step, agent) THEN Checked(ins.tbl, "OutputCount")
    ELSE LET outs == CheckOutputs(ins.tbl, step, agent, 1) IN
    IF outs.err # NoError THEN outs
    ELSE LET cond == CheckCondition(outs.tbl, step) IN
    IF cond.err # NoError THEN cond
    ELSE CheckIterateKey(cond.tbl, step)

\* lines 76-133: the body of the loop for one step
CheckStepBody(tbl, step, agents) ==
    IF step.agent \notin DOMAIN agents THEN Checked(tbl, "AgentNotFound")
    ELSE LET agent == agents[step.agent] IN
    IF InputCountMismatch(step, agent) THEN Checked(tbl, "InputCount")
    ELSE LET ins == CheckInputs(tbl, step, agent, 1) IN
    IF ins.err # NoError THEN ins
    ELSE IF OutputCountMismatch(step, agent) THEN Checked(ins.tbl, "OutputCount")
    ELSE LET outs == CheckOutputs(ins.tbl, step, agent, 1) IN
    IF outs.err # NoError THEN outs
    ELSE LET cond == CheckCondition(outs.tbl, step) IN
    IF cond.err # NoError THEN cond
    ELSE CheckIterateKey(cond.tbl, step)

\* CheckTerminal comparing with the class of a personalized transcript
CheckTerminalPersonalized(tbl) ==
    IF "final_transcript" \notin DOMAIN tbl THEN "FinalUndefined"
    ELSE IF tbl["final_transcript"] # "PersonalizedTranscript" THEN "FinalNotTranscript"
    ELSE NoError

\* CheckTerminal with issubclass in place of the comparison of classes
CheckTerminalSubclass(tbl) ==
    IF "final_transcript" \notin DOMAIN tbl THEN "FinalUndefined"
    ELSE IF ~issubclass(tbl["final_transcript"], "Transcript") THEN "FinalNotTranscript"
    ELSE NoError

\* lines 137-140: the error of the check after the loop
CheckTerminal(tbl) ==
    IF "final_transcript" \notin DOMAIN tbl THEN "FinalUndefined"
    ELSE IF tbl["final_transcript"] # "Transcript" THEN "FinalNotTranscript"
    ELSE NoError

(***************************************************************************)
(* Python objects that travel through the pipeline: None, a str, a bool.   *)
(***************************************************************************)
None == [pytype |-> "NoneType"]
PyStr(s) == [pytype |-> "str", str |-> s]
PyBool(b) == [pytype |-> "bool", bool |-> b]

\* how an f-string renders an object: f"{x}"
Format(x) ==
    CASE x.pytype = "NoneType" -> "None"
      [] x.pytype = "bool" -> IF x.bool THEN "True" ELSE "False"
      [] x.pytype = "str" -> x.str

\* json.dump(x, f) and json.load(f) of one entry of the output dict
JsonDump(x) ==
    CASE x.pytype = "NoneType" -> [json |-> "null"]
      [] x.pytype = "bool" -> [json |-> IF x.bool THEN "true" ELSE "false"]
      [] x.pytype = "str" -> [json |-> "string", chars |-> x.str]
JsonLoad(j) ==
    CASE j.json = "null" -> None
      [] j.json = "true" -> PyBool(TRUE)
      [] j.json = "false" -> PyBool(FALSE)
      [] j.json = "string" -> PyStr(j.chars)

(***************************************************************************)
(* run_workflow.  A value is an instance of an infotypes class: its class, *)
(* its .value, and which run returned it (step_number, iteration, position *)
(* in the returned list).                                                  *)
(***************************************************************************)
NoIteration == -1
Value(cls, step_number, iter, idx, value) ==
    [cls |-> cls, step |-> step_number, iter |-> iter, idx |-> idx, value |-> value]

\* the texts main_typed.py may extract from the input document and pass as
\* input_text
InputTexts == {PyStr("hello"), PyStr("bye")}

\* infotypes.SourceText(input_text), line 160
\* the caller of run_workflow: how many calls it makes over one output
\* directory, and the texts it passes
Caller(max_runs, texts) == [max_runs |-> max_runs, texts |-> texts]

SourceText(text) == Value("SourceText", -1, NoIteration, 0, text)
SourceValue == SourceText(input_text)
\* no value: run_workflow has not returned
NoValue == Value("None", -1, NoIteration, -1, None)

output_dir == "out"

\* os.path.join(output_dir, f"step{step_number}_{agent_name}_output.json"), line 184
OutputFile(step_number, agent_name) ==
    output_dir \o "/step" \o ToString(step_number) \o "_" \o agent_name \o "_output.json"

\* IterOutputFile with the iteration index left out of the name
IterOutputFileShared(step_number, agent_name, iter) ==
    output_dir \o "/step" \o ToString(step_number) \o "_" \o agent_name \o "_output.json"

\* os.path.join(output_dir, f"step{step_number}_{agent_name}_iter{iteration}_output.json"), line 175
IterOutputFile(step_number, agent_name, iter) ==
    output_dir \o "/step" \o ToString(step_number) \o "_" \o agent_name
               \o "_iter" \o ToString(iter) \o "_output.json"

(***************************************************************************)
(* Agent.run(inputs, output_file), agents.py.  Every run has the shape     *)
(*     if os.path.exists(output_file): load the outputs from it            *)
(*     else: read the inputs, call the LLM, write output_file, write the   *)
(*           dev file                                                      *)
(*     return the outputs                                                  *)
(* llm_call.call returns a str, or None when every attempt failed.  The    *)
(* n-th call answers with a text of its own.                               *)
(***************************************************************************)
Response(n) == PyStr("r" \o ToString(n))

\* what the n-th call of the LLM may return to this agent
LLMResponses(agent, n) ==
    IF agent.run = "verdict" THEN {None, PyStr("yes"), PyStr("no")}
    ELSE {None, Response(n)}

\* agent_instance.run reads its inputs only when output_file does not exist:
\* inputs[0] .. inputs[k-1], or an exact unpacking
RunReadsInputs(agent, args) ==
    IF agent.unpack THEN Len(args) = Len(agent.expected_input_types)
    ELSE Len(args) >= Len(agent.expected_input_types)

\* acts_text.split('Act_k:')[1].split('Act_k+1:')[0].strip(), lines 226-228
ActPart(acts_text, k) == PyStr(acts_text.str \o ".act_" \o ToString(k))

\* f"Original Summary:\n{summary}\n\n{analogies}", line 373
FullResponse(summary, analogies) ==
    PyStr("Original Summary:" \o Format(summary) \o "::" \o Format(analogies))

\* the objects run puts in its output dict, from the LLM's response
OutputTexts(agent, args, response) ==
    CASE agent.run = "acts" ->
            <<ActPart(response, 1), ActPart(response, 2), ActPart(response, 3)>>
      [] agent.run = "analogy" -> <<FullResponse(args[1].value, response)>>
      [] agent.run = "verdict" -> <<PyBool(response # None /\ response.str = "yes")>>
      [] OTHER -> <<response>>

\* the list run returns: one instance per object
RunOutputs(agent, step_number, iter, texts) ==
    [i \in 1..Len(texts) |-> Value(agent.output_types[i], step_number, iter, i - 1, texts[i])]

Ran(err, outputs, fs, asked) == [err |-> err, outputs |-> outputs, files |-> fs, asked |-> asked]

\* AgentRun that never finds output_file: every run computes its outputs anew
AgentRunUncached(agent, args, output_file, fs, response, step_number, iter) ==
    IF ~RunReadsInputs(agent, args) THEN Ran("RunRaised", <<>>, fs, 0)
    ELSE IF agent.run = "acts" /\ response = None THEN Ran("AttributeError", <<>>, fs, 1)
    ELSE LET texts == OutputTexts(agent, args, response)
             written == (output_file :> [i \in 1..Len(texts) |-> JsonDump(texts[i])])
                           @@ [f \in DOMAIN fs \ {output_file} |-> fs[f]]
         IN  IF agent.run \in {"text", "verdict"} /\ response = None
             THEN Ran("TypeError:write", <<>>, written, 1)
             ELSE Ran(NoError, RunOutputs(agent, step_number, iter, texts), written, 1)

\* AgentRun whose loading branch returns the value of its first input
AgentRunEchoingInput(agent, args, output_file, fs, response, step_number, iter) ==
    IF output_file \in DOMAIN fs
    THEN Ran(NoError,
             RunOutputs(agent, step_number, iter,
                        [i \in 1..Len(fs[output_file]) |->
                            IF args = <<>> THEN JsonLoad(fs[output_file][i])
                            ELSE args[1].value]),
             fs, 0)
    ELSE AgentRunUncached(agent, args, output_file, fs, response, step_number, iter)

\* agent_instance.run(args, output_file) with the directory holding fs and the
\* LLM answering response: the error raised, the list returned, the directory
\* afterwards and the number of LLM calls made
AgentRun(agent, args, output_file, fs, response, step_number, iter) ==
    IF output_file \in DOMAIN fs
    THEN Ran(NoError,
             RunOutputs(agent, step_number, iter,
                        [i \in 1..Len(fs[output_file]) |-> JsonLoad(fs[output_file][i])]),
             fs, 0)
    ELSE IF ~RunReadsInputs(agent, args) THEN Ran("RunRaised", <<>>, fs, 0)
    ELSE IF agent.run = "acts" /\ response = None THEN Ran("AttributeError", <<>>, fs, 1)
    ELSE LET texts == OutputTexts(agent, args, response)
             written == (output_file :> [i \in 1..Len(texts) |-> JsonDump(texts[i])])
                           @@ [f \in DOMAIN fs \ {output_file} |-> fs[f]]
         IN  IF agent.run \in {"text", "verdict"} /\ response = None
             THEN Ran("TypeError:write", <<>>, written, 1)
             ELSE Ran(NoError, RunOutputs(agent, step_number, iter, texts), written, 1)

Bound(tbl, log, err) == [tbl |-> tbl, log |-> log, err |-> err]

\* StoreName with the suffix of iteration 0 in every iteration
StoreNameFirstIndex(output_name, iter) ==
    IF iter = NoIteration THEN output_name ELSE IterName(output_name, 0)

\* StoreName with the iteration suffix left off
StoreNameBare(output_name, iter) == output_name

\* the name an output is stored under: lines 181 and 190
StoreName(output_name, iter) ==
    IF iter = NoIteration THEN output_name ELSE IterName(output_name, iter)

\* StoreOutputs that stores the first result under every output name
RECURSIVE StoreOutputsFirst(_, _, _, _, _, _, _)
StoreOutputsFirst(tbl, log, step, step_number, iter, outputs, k) ==
    IF k > Len(step.outputs) THEN Bound(tbl, log, NoError)
    ELSE IF k > Len(outputs) THEN Bound(tbl, log, "IndexError")
    ELSE LET name == StoreName(step.outputs[k], iter)
         IN  StoreOutputsFirst((name :> outputs[1]) @@ [m \in DOMAIN tbl \ {name} |-> tbl[m]],
                               Append(log, [step |-> step_number, name |-> name,
                                            value |-> outputs[1]]),
                               step, step_number, iter, outputs, k + 1)

\* "for i, output_name in enumerate(step['outputs']): inputs[...] = outputs[i]"
\* from position k on (lines 180-181 and 189-190); log collects the writes
RECURSIVE StoreOutputs(_, _, _, _, _, _, _)
StoreOutputs(tbl, log, step, step_number, iter, outputs, k) ==
    IF k > Len(step.outputs) THEN Bound(tbl, log, NoError)
    ELSE IF k > Len(outputs) THEN Bound(tbl, log, "IndexError")
    ELSE LET name == StoreName(step.outputs[k], iter)
         IN  StoreOutputs((name :> outputs[k]) @@ [m \in DOMAIN tbl \ {name} |-> tbl[m]],
                          Append(log, [step |-> step_number, name |-> name, value |-> outputs[k]]),
                          step, step_number, iter, outputs, k + 1)

Call(step_number, agent_name, iter, args, output_file) ==
    [step |-> step_number, agent |-> agent_name, iter |-> iter,
     args |-> args, output_file |-> output_file]

(***************************************************************************)
(* GPT4O.call(conversations, max_retries, initial_wait), llm.py lines      *)
(* 47-75.  A request either returns a completion, whose message content    *)
(* the call returns, or raises; the agents call it with the default        *)
(* parameters.                                                             *)
(***************************************************************************)
\* line 47: max_retries: int = 5, initial_wait: float = 1.0
default_max_retries == 5
default_initial_wait == 1

\* the values of initial_wait explored
InitialWaits == {1, 2}

\* response.choices[0].message.content of the request made in a given attempt
Contents(n) == {PyStr("content" \o ToString(n)), PyStr("other" \o ToString(n))}

Completed(content) == [ok |-> TRUE, content |-> content]
Failed == [ok |-> FALSE, content |-> None]

\* the call has not returned
NotReturned == [pytype |-> "pending"]

RECURSIVE Pow2(_)
Pow2(k) == IF k <= 0 THEN 1 ELSE 2 * Pow2(k - 1)

\* WaitTime growing by initial_wait with every attempt
WaitTimeLinear(wait, k) == wait * (k + 1)

\* line 73: initial_wait * (2 ** attempt)
WaitTime(wait, k) == wait * Pow2(k)

\* IsLastAttempt that holds for no attempt
IsLastAttemptNever(k, retries) == FALSE

\* line 70: attempt == max_retries - 1
IsLastAttempt(k, retries) == k = retries - 1

\* the state of GPT4O.call before it is called
CallIdle ==
    /\ max_retries = default_max_retries
    /\ initial_wait = default_initial_wait
    /\ attempt = 0
    /\ wait_time = 0
    /\ call_pc = "idle"
    /\ requests = <<>>
    /\ slept = <<>>
    /\ call_result = NotReturned

call_vars == <<max_retries, initial_wait, attempt, wait_time, call_pc, requests, slept,
               call_result>>
program_vars == <<agents_dict, workflow, pc, defined_inputs, ci, inputs, ri, iteration,
                  agent_inputs, calls, writes, error, result, files, llm_calls,
                  execution, finished, trace, input_text, caller>>

(***************************************************************************)
(* The state machine.                                                      *)
(***************************************************************************)
EmptyTable == [name \in {} |-> "SourceText"]
EmptyValues == [name \in {} |-> NoValue]
EmptyDirectory == [f \in {} |-> <<>>]

Init ==
    /\ \E c \in Configs : agents_dict = c.agents /\ workflow = c.workflow
    /\ pc = "main"
    /\ defined_inputs = EmptyTable
    /\ ci = 0
    /\ inputs = EmptyValues
    /\ ri = 0
    /\ iteration = 0
    /\ agent_inputs = <<>>
    /\ calls = <<>>
    /\ writes = <<>>
    /\ error = NoError
    /\ result = NoValue
    /\ files = EmptyDirectory
    /\ llm_calls = 0
    /\ execution = 0
    /\ finished = <<>>
    /\ trace = <<>>
    /\ input_text = None
    /\ caller = Caller(MaxRuns, {PyStr("hello")})
    /\ CallIdle

run_vars == <<inputs, ri, iteration, agent_inputs, calls, writes, result, files,
              llm_calls, execution, finished, trace, input_text>>
check_vars == <<defined_inputs, ci>>
config_vars == <<agents_dict, workflow, caller>>

\* main_typed.py line 43: config.check_workflow(), up to the loop (lines 66-73)
CallCheck ==
    /\ pc = "main"
    /\ pc' = "check"
    /\ defined_inputs' = ("source_text" :> "SourceText")
    /\ ci' = 1
    /\ UNCHANGED <<call_vars, config_vars, run_vars, error>>

\* one iteration of the loop of check_workflow (lines 75-133)
CheckStep ==
    /\ pc = "check"
    /\ ci <= Len(workflow)
    /\ LET r == CheckStepBody(defined_inputs, workflow[ci], agents_dict)
       IN  /\ defined_inputs' = r.tbl
           /\ error' = r.err
           /\ IF r.err = NoError
              THEN pc' = "check" /\ ci' = ci + 1
              ELSE pc' = "check_failed" /\ ci' = ci
    /\ UNCHANGED <<call_vars, config_vars, run_vars>>

\* the check after the loop (lines 136-142)
CheckFinal ==
    /\ pc = "check"
    /\ ci = Len(workflow) + 1
    /\ error' = CheckTerminal(defined_inputs)
    /\ pc' = IF CheckTerminal(defined_inputs) = NoError THEN "checked" ELSE "check_failed"
    /\ UNCHANGED <<call_vars, config_vars, check_vars, run_vars>>

\* RunCallers with the call of run_workflow made even after the check raised
RunCallersUnchecked == {"checked", "main", "done", "run_failed", "check_failed"}

\* where run_workflow is called from: main_typed.py line 50 once the check has
\* returned; a caller that never checked the configuration; the same caller
\* again, over the same output directory, after an earlier call has ended
RunCallers == {"checked", "main", "done", "run_failed"}

\* run_workflow entered (lines 156-160)
CallRun ==
    /\ pc \in RunCallers
    /\ execution < caller.max_runs
    /\ pc' = "run"
    /\ execution' = execution + 1
    /\ \E text \in caller.texts :
          /\ input_text' = text
          /\ inputs' = ("source_text" :> SourceText(text))
    /\ ri' = 0
    /\ iteration' = 0
    /\ agent_inputs' = <<>>
    /\ calls' = <<>>
    /\ writes' = <<>>
    /\ error' = NoError
    /\ result' = NoValue
    /\ UNCHANGED <<call_vars, config_vars, check_vars, files, llm_calls, finished, trace>>

\* the record kept of a run_workflow call that ended: what it returned, the
\* exception it raised, and the number of LLM calls made up to then
Outcome(res, err, asked) == [result |-> res, error |-> err, llm_calls |-> asked]

\* Raises with the exception caught inside the loop: the loop goes on from
\* where it stands
RaisesCaught(err, asked) ==
    /\ pc' = pc
    /\ error' = error
    /\ finished' = finished
    /\ UNCHANGED result

\* run_workflow raises err; asked LLM calls were made by the step that raised
Raises(err, asked) ==
    /\ pc' = "run_failed"
    /\ error' = err
    /\ finished' = Append(finished, Outcome(NoValue, err, llm_calls + asked))
    /\ UNCHANGED result

\* RunFails with the failed lookup passed over: the loop goes on with the
\* next step
RunFailsSkippingStep(err) ==
    /\ pc' = "run"
    /\ ri' = ri + 1
    /\ UNCHANGED <<inputs, iteration, agent_inputs, calls, writes, files, llm_calls,
                   execution, trace, error, result, finished, input_text>>

\* a lookup of run_workflow raised before any agent ran in this step
RunFails(err) ==
    /\ Raises(err, 0)
    /\ UNCHANGED <<inputs, ri, iteration, agent_inputs, calls, writes, files, llm_calls,
                   execution, trace, input_text>>

\* AfterRun with a step that carries a WHILE condition run a second time
AfterRunRepeatingWhile(step, iter) ==
    IF /\ "condition" \in DOMAIN step
       /\ "WHILE" \in DOMAIN step.condition
       /\ \A n \in 1..Len(calls) : calls[n].step # ri
    THEN [pc |-> pc, ri |-> ri, iteration |-> iteration]
    ELSE IF iter # NoIteration /\ iter + 1 \in Range(step.iterate.int)
    THEN [pc |-> "iterating", ri |-> ri, iteration |-> iter + 1]
    ELSE [pc |-> "run", ri |-> ri + 1, iteration |-> iteration]

\* AfterRun with the iteration loop left after its first pass
AfterRunLeavingLoop(step, iter) ==
    [pc |-> "run", ri |-> ri + 1, iteration |-> iteration]

\* what the loops of run_workflow do once the run of step ri (iteration iter)
\* has returned and its outputs are stored: the next iteration, or the next step
AfterRun(step, iter) ==
    IF iter # NoIteration /\ iter + 1 \in Range(step.iterate.int)
    THEN [pc |-> "iterating", ri |-> ri, iteration |-> iter + 1]
    ELSE [pc |-> "run", ri |-> ri + 1, iteration |-> iteration]

\* the LLM was not called in the run
NotAsked == [pytype |-> "not asked"]

\* the record kept of an agent run: the run_workflow call it belongs to, its
\* output_file and whether it existed, what the LLM answered when the run
\* called it, and what the run did
Traced(exec, args, output_file, existed, r, response) ==
    [execution |-> exec, input_text |-> input_text, args |-> args,
     output_file |-> output_file, existed |-> existed,
     asked |-> r.asked, err |-> r.err, outputs |-> r.outputs,
     response |-> IF r.asked = 0 THEN NotAsked ELSE response]

\* outputs = agent_instance.run(args, output_file) for step ri, and the stores
\* that follow it (lines 177-181 with iter = iteration, 186-190 with none)
RunAndStore(step, agent, iter, args, output_file) ==
    \E response \in LLMResponses(agent, llm_calls + 1) :
       LET r == AgentRun(agent, args, output_file, files, response, ri, iter)
           b == StoreOutputs(inputs, writes, step, ri, iter, r.outputs, 1)
           next == AfterRun(step, iter)
       IN  /\ calls' = Append(calls, Call(ri, step.agent, iter, args, output_file))
           /\ trace' = Append(trace, Traced(execution, args, output_file,
                                            output_file \in DOMAIN files, r,
                                            response))
           /\ files' = r.files
           /\ llm_calls' = llm_calls + r.asked
           /\ UNCHANGED <<execution, input_text>>
           /\ IF r.err # NoError
              THEN Raises(r.err, r.asked) /\ UNCHANGED <<inputs, ri, iteration, writes>>
              ELSE /\ inputs' = b.tbl
                   /\ writes' = b.log
                   /\ IF b.err # NoError
                      THEN Raises(b.err, r.asked) /\ UNCHANGED <<ri, iteration>>
                      ELSE /\ pc' = next.pc
                           /\ ri' = next.ri
                           /\ iteration' = next.iteration
                           /\ UNCHANGED <<error, result, finished>>

\* one step of the loop of run_workflow (lines 162-190): the lookups, and the
\* agent run of a step that is not iterated
RunStep ==
    /\ pc = "run"
    /\ ri < Len(workflow)
    /\ LET step == workflow[ri + 1] IN
       IF step.agent \notin DOMAIN agents_dict THEN RunFails("KeyError:agent")
       ELSE IF \E k \in 1..Len(step.inputs) : step.inputs[k] \notin DOMAIN inputs
       THEN RunFails("KeyError:input")
       ELSE LET agent == agents_dict[step.agent]
                args == [k \in 1..Len(step.inputs) |-> inputs[step.inputs[k]]]
            IN  IF "iterate" \in DOMAIN step
                THEN IF step.iterate.pytype # "int" THEN RunFails("TypeError:range")
                     ELSE /\ agent_inputs' = args
                          /\ IF Range(step.iterate.int) = {}
                             THEN pc' = "run" /\ ri' = ri + 1 /\ UNCHANGED iteration
                             ELSE pc' = "iterating" /\ iteration' = 0 /\ UNCHANGED ri
                          /\ UNCHANGED <<inputs, calls, writes, result, error, files,
                                         llm_calls, execution, finished, trace,
                                         input_text>>
                ELSE /\ agent_inputs' = args
                     /\ RunAndStore(step, agent, NoIteration, args, OutputFile(ri, step.agent))
    /\ UNCHANGED <<call_vars, config_vars, check_vars>>

\* RunIteration with the input names looked up again in every pass
RunIterationLookingUp ==
    /\ pc = "iterating"
    /\ LET step == workflow[ri + 1]
       IN  RunAndStore(step, agents_dict[step.agent], iteration,
                       [k \in 1..Len(step.inputs) |-> inputs[step.inputs[k]]],
                       IterOutputFile(ri, step.agent, iteration))
    /\ UNCHANGED agent_inputs
    /\ UNCHANGED <<call_vars, config_vars, check_vars>>

\* one pass of "for iteration in range(iterate_count)" (lines 173-181)
RunIteration ==
    /\ pc = "iterating"
    /\ LET step == workflow[ri + 1]
       IN  RunAndStore(step, agents_dict[step.agent], iteration, agent_inputs,
                       IterOutputFile(ri, step.agent, iteration))
    /\ UNCHANGED agent_inputs
    /\ UNCHANGED <<call_vars, config_vars, check_vars>>

\* line 193: return inputs['final_transcript']
RunReturn ==
    /\ pc = "run"
    /\ ri = Len(workflow)
    /\ IF "final_transcript" \in DOMAIN inputs
       THEN /\ pc' = "done"
            /\ result' = inputs["final_transcript"]
            /\ finished' = Append(finished,
                                  Outcome(inputs["final_transcript"], NoError, llm_calls))
            /\ UNCHANGED <<inputs, ri, iteration, agent_inputs, calls, writes, error,
                           files, llm_calls, execution, trace, input_text>>
       ELSE RunFails("KeyError:final")
    /\ UNCHANGED <<call_vars, config_vars, check_vars>>

Next ==
    \/ CallCheck
    \/ CheckStep
    \/ CheckFinal
    \/ CallRun
    \/ RunStep
    \/ RunIteration
    \/ RunReturn

Spec == Init /\ [][Next]_vars

(***************************************************************************)
(* The program run again and again over one output directory, with texts   *)
(* that differ from call to call: up to MaxReruns calls of run_workflow on  *)
(* the workflows of 1..MaxSteps steps of RerunPool, and on IraPod's.        *)
(***************************************************************************)
RerunPool == {
    Step("NarrativeAgent", <<"source_text">>, <<"n">>),
    Step("ActAgent", <<"source_text", "n">>, <<"a1", "a2", "a3">>),
    Step("SimpleTranscriptAgent", <<"a1">>, <<"final_transcript">>),
    Step("PersonalizeAgent", <<"n">>, <<"final_transcript">>),
    Step("SimpleTranscriptAgent", <<"source_text">>, <<"final_transcript">>),
    Iterated(Step("NarrativeAgent", <<"source_text">>, <<"d">>), IterN),
    Step("PersonalizeAgent", <<"d_iter0">>, <<"final_transcript">>),
    Step("JudgeAgent", <<"n">>, <<"b">>)
}

RerunConfigs ==
    {[agents |-> IraPodAgents, workflow |-> IraPodWorkflow]}
    \cup {[agents |-> SampleAgents, workflow |-> w] : w \in SeqsUpTo(RerunPool, MaxSteps) \ {<<>>}}

RerunInit ==
    /\ \E c \in RerunConfigs : agents_dict = c.agents /\ workflow = c.workflow
    /\ pc = "main"
    /\ defined_inputs = EmptyTable
    /\ ci = 0
    /\ inputs = EmptyValues
    /\ ri = 0
    /\ iteration = 0
    /\ agent_inputs = <<>>
    /\ calls = <<>>
    /\ writes = <<>>
    /\ error = NoError
    /\ result = NoValue
    /\ files = EmptyDirectory
    /\ llm_calls = 0
    /\ execution = 0
    /\ finished = <<>>
    /\ trace = <<>>
    /\ input_text = None
    /\ caller = Caller(MaxReruns, InputTexts)
    /\ CallIdle

RerunSpec == RerunInit /\ [][Next]_vars

(***************************************************************************)
(* main.py: run_workflow(llm, output_dir, input_text), the hardcoded       *)
(* pipeline (lines 23-80).  Its loops run over constant ranges and are     *)
(* written out: one statement for each agent run, with the names it looks  *)
(* up in inputs, in the order it lists them, the step number and           *)
(* iteration its file name carries, and the names it stores under.         *)
(***************************************************************************)
Statement(agent, step_number, iter, ins, outs) ==
    [agent |-> agent, step |-> step_number, iter |-> iter, inputs |-> ins, outputs |-> outs]

\* lines 46-50 and 52-56: for i in range(1, 4)
ContextualizeStatement(i) ==
    Statement("ContextualizeAgent", i + 2, NoIteration,
              <<"source_text", "acts_output" \o ToString(i)>>,
              <<"contextualized_act" \o ToString(i)>>)
AnalogyStatement(i) ==
    Statement("AnalogyAgent", i + 5, NoIteration,
              <<"contextualized_act" \o ToString(i)>>, <<"analogies_act" \o ToString(i)>>)

\* lines 58-63: for i in range(3); transcript_inputs lists the three acts,
\* then the three analogies
TranscriptStatement(i) ==
    Statement("TranscriptAgent", 9, i,
              <<"acts_output1", "acts_output2", "acts_output3",
                "analogies_act1", "analogies_act2", "analogies_act3">>,
              <<IterName("transcript_draft", i)>>)

HardcodedProgram == <<
    Statement("NarrativeAgent", 1, NoIteration, <<"source_text">>, <<"narrative_output">>),
    Statement("ActAgent", 2, NoIteration, <<"source_text", "narrative_output">>,
              <<"acts_output1", "acts_output2", "acts_output3">>),
    ContextualizeStatement(1), ContextualizeStatement(2), ContextualizeStatement(3),
    AnalogyStatement(1), AnalogyStatement(2), AnalogyStatement(3),
    TranscriptStatement(0), TranscriptStatement(1), TranscriptStatement(2),
    Statement("CombineTranscriptsAgent", 10, NoIteration,
              <<"transcript_draft_iter0", "transcript_draft_iter1", "transcript_draft_iter2">>,
              <<"combined_transcript">>),
    Statement("DoubleTranscriptAgent", 11, NoIteration,
              <<"combined_transcript">>, <<"double_transcript">>),
    \* line 78: the result is kept in the local final_transcript and returned
    Statement("PersonalizeAgent", 12, NoIteration, <<"double_transcript">>, <<>>) >>

StatementFile(st) ==
    IF st.iter = NoIteration THEN OutputFile(st.step, st.agent)
    ELSE IterOutputFile(st.step, st.agent, st.iter)

\* inputs[name] = value for each name of the statement, in order
RECURSIVE StoreStatement(_, _, _, _, _)
StoreStatement(tbl, log, st, outputs, k) ==
    IF k > Len(st.outputs) THEN Bound(tbl, log, NoError)
    ELSE StoreStatement((st.outputs[k] :> outputs[k])
                          @@ [m \in DOMAIN tbl \ {st.outputs[k]} |-> tbl[m]],
                        Append(log, [step |-> st.step, name |-> st.outputs[k],
                                     value |-> outputs[k]]),
                        st, outputs, k + 1)

HardcodedInit ==
    /\ agents_dict = IraPodAgents
    /\ workflow = IraPodWorkflow
    /\ pc = "main_py"
    /\ defined_inputs = EmptyTable
    /\ ci = 0
    /\ inputs = EmptyValues
    /\ ri = 0
    /\ iteration = 0
    /\ agent_inputs = <<>>
    /\ calls = <<>>
    /\ writes = <<>>
    /\ error = NoError
    /\ result = NoValue
    /\ files = EmptyDirectory
    /\ llm_calls = 0
    /\ execution = 0
    /\ finished = <<>>
    /\ trace = <<>>
    /\ input_text = None
    /\ caller = Caller(MaxReruns, InputTexts)
    /\ CallIdle

\* main.py line 100: run_workflow(llm_instance, args.output, source_text),
\* entered (line 34)
HardcodedCall ==
    /\ pc \in {"main_py", "done", "run_failed"}
    /\ execution < caller.max_runs
    /\ pc' = "hardcoded"
    /\ execution' = execution + 1
    /\ \E text \in caller.texts :
          /\ input_text' = text
          /\ inputs' = ("source_text" :> SourceText(text))
    /\ ri' = 0
    /\ iteration' = 0
    /\ agent_inputs' = <<>>
    /\ calls' = <<>>
    /\ writes' = <<>>
    /\ error' = NoError
    /\ result' = NoValue
    /\ UNCHANGED <<call_vars, config_vars, check_vars, files, llm_calls, finished, trace>>

\* one agent run of main.py with the statements around it: the list of
\* inputs is built, the agent runs, its results are stored; the last one
\* returns its result
HardcodedStatement ==
    /\ pc = "hardcoded"
    /\ ri < Len(HardcodedProgram)
    /\ LET st == HardcodedProgram[ri + 1]
           agent == IraPodAgents[st.agent]
           args == [k \in 1..Len(st.inputs) |-> inputs[st.inputs[k]]]
           output_file == StatementFile(st)
       IN  \E response \in LLMResponses(agent, llm_calls + 1) :
             LET r == AgentRun(agent, args, output_file, files, response, st.step, st.iter)
                 b == StoreStatement(inputs, writes, st, r.outputs, 1)
             IN  /\ agent_inputs' = args
                 /\ calls' = Append(calls, Call(st.step, st.agent, st.iter, args, output_file))
                 /\ trace' = Append(trace, Traced(execution, args, output_file,
                                                  output_file \in DOMAIN files, r,
                                                  response))
                 /\ files' = r.files
                 /\ llm_calls' = llm_calls + r.asked
                 /\ UNCHANGED <<execution, input_text, iteration>>
                 /\ IF r.err # NoError
                    THEN Raises(r.err, r.asked) /\ UNCHANGED <<inputs, ri, writes>>
                    ELSE /\ inputs' = b.tbl
                         /\ writes' = b.log
                         /\ ri' = ri + 1
                         /\ IF ri + 1 = Len(HardcodedProgram)
                            THEN /\ pc' = "done"
                                 /\ result' = r.outputs[1]
                                 /\ finished' = Append(finished,
                                        Outcome(r.outputs[1], NoError, llm_calls + r.asked))
                                 /\ UNCHANGED error
                            ELSE UNCHANGED <<pc, error, result, finished>>
    /\ UNCHANGED <<call_vars, config_vars, check_vars>>

HardcodedNext ==
    \/ HardcodedCall
    \/ HardcodedStatement

HardcodedSpec == HardcodedInit /\ [][HardcodedNext]_vars

(***************************************************************************)
(* GPT4O.call as a state machine of its own: one call, entered with any    *)
(* max_retries in 0..MaxRetries and any initial_wait of InitialWaits.      *)
(***************************************************************************)
CallInit ==
    /\ agents_dict = IraPodAgents
    /\ workflow = IraPodWorkflow
    /\ pc = "call"
    /\ defined_inputs = EmptyTable
    /\ ci = 0
    /\ inputs = EmptyValues
    /\ ri = 0
    /\ iteration = 0
    /\ agent_inputs = <<>>
    /\ calls = <<>>
    /\ writes = <<>>
    /\ error = NoError
    /\ result = NoValue
    /\ files = EmptyDirectory
    /\ llm_calls = 0
    /\ execution = 0
    /\ finished = <<>>
    /\ trace = <<>>
    /\ input_text = None
    /\ caller = Caller(0, {})
    /\ max_retries \in 0..MaxRetries
    /\ initial_wait \in InitialWaits
    /\ attempt = 0
    /\ wait_time = 0
    /\ call_pc = "for"
    /\ requests = <<>>
    /\ slept = <<>>
    /\ call_result = NotReturned

\* line 62: for attempt in range(max_retries); past the range the function
\* ends without a return statement
ForAttempt ==
    /\ call_pc = "for"
    /\ IF attempt \in Range(max_retries)
       THEN call_pc' = "try" /\ UNCHANGED call_result
       ELSE call_pc' = "returned" /\ call_result' = None
    /\ UNCHANGED <<max_retries, initial_wait, attempt, wait_time, requests, slept>>
    /\ UNCHANGED program_vars

\* lines 63-68: the request; its content is returned, or it raises
Create ==
    /\ call_pc = "try"
    /\ \/ \E content \in Contents(attempt) :
             /\ requests' = Append(requests, Completed(content))
             /\ call_result' = content
             /\ call_pc' = "returned"
       \/ /\ requests' = Append(requests, Failed)
          /\ call_pc' = "except"
          /\ UNCHANGED call_result
    /\ UNCHANGED <<max_retries, initial_wait, attempt, wait_time, slept>>
    /\ UNCHANGED program_vars

\* lines 69-74: except Exception
Except ==
    /\ call_pc = "except"
    /\ IF IsLastAttempt(attempt, max_retries)
       THEN call_pc' = "returned" /\ call_result' = None /\ UNCHANGED wait_time
       ELSE /\ wait_time' = WaitTime(initial_wait, attempt)
            /\ call_pc' = "sleep"
            /\ UNCHANGED call_result
    /\ UNCHANGED <<max_retries, initial_wait, attempt, requests, slept>>
    /\ UNCHANGED program_vars

\* line 75: time.sleep(wait_time), then the next pass of the loop
Sleep ==
    /\ call_pc = "sleep"
    /\ slept' = Append(slept, wait_time)
    /\ attempt' = attempt + 1
    /\ call_pc' = "for"
    /\ UNCHANGED <<max_retries, initial_wait, wait_time, requests, call_result>>
    /\ UNCHANGED program_vars

CallNext ==
    \/ ForAttempt
    \/ Create
    \/ Except
    \/ Sleep

CallSpec == CallInit /\ [][CallNext]_vars

(***************************************************************************)
(* Vocabulary of the properties.                                           *)
(***************************************************************************)
\* check_workflow returned normally (it was called, and passed the last check)
CheckPassed == ci = Len(workflow) + 1 /\ pc \notin {"check", "check_failed"}
\* check_workflow raised
CheckFailed == pc = "check_failed"
\* check_workflow is about to process step ci
AtCheckStep == pc = "check" /\ ci <= Len(workflow)

\* two classes are compatible: the same class, or one a subclass of the other
Compatible(defined_type, expected_type) ==
    issubclass(defined_type, expected_type) \/ issubclass(expected_type, defined_type)

Registered(agents, step) == step.agent \in DOMAIN agents
CountsMatch(agents, step) ==
    /\ Len(step.inputs) = Len(agents[step.agent].expected_input_types)
    /\ Len(step.outputs) = Len(agents[step.agent].output_types)

\* the iteration indexes of a step: 0 .. N-1 for an integer iterate = N
IterIndexes(step) ==
    IF "iterate" \in DOMAIN step /\ step.iterate.pytype = "int"
    THEN {i \in 0..(step.iterate.int - 1) : TRUE} ELSE {}

\* the derived names of a step
DerivedNames(step) ==
    {IterName(step.outputs[k], i) : k \in 1..Len(step.outputs), i \in IterIndexes(step)}
OutputNames(step) == {step.outputs[k] : k \in 1..Len(step.outputs)}
InputNames(step) == {step.inputs[k] : k \in 1..Len(step.inputs)}

\* the <<name, class>> pairs a step with matching counts produces: its
\* outputs and, when it is iterated, their derived names
Produces(agents, step) ==
    LET types == agents[step.agent].output_types
    IN  {<<step.outputs[k], types[k]>> : k \in 1..Len(step.outputs)}
        \cup {<<IterName(step.outputs[k], i), types[k]>> :
                 k \in 1..Len(step.outputs), i \in IterIndexes(step)}

\* every name a step produces is produced once, and by no earlier step
SingleAssignment(wf, k) ==
    LET step == wf[k] IN
    /\ \A j1, j2 \in 1..Len(step.outputs) : step.outputs[j1] = step.outputs[j2] => j1 = j2
    /\ \A j1, j2 \in 1..Len(step.outputs) : \A i1, i2 \in IterIndexes(step) :
          IterName(step.outputs[j1], i1) = IterName(step.outputs[j2], i2)
             => j1 = j2 /\ i1 = i2
    /\ OutputNames(step) \cap DerivedNames(step) = {}
    /\ "source_text" \notin OutputNames(step) \cup DerivedNames(step)
    /\ \A e \in 1..(k - 1) :
          (OutputNames(wf[e]) \cup DerivedNames(wf[e]))
             \cap (OutputNames(step) \cup DerivedNames(step)) = {}

\* every input is the seed or produced by an earlier step, with a compatible class
InputsTraceable(agents, wf, k) ==
    LET step == wf[k]
        expected == agents[step.agent].expected_input_types
    IN  \A j \in 1..Len(step.inputs) :
           \/ step.inputs[j] = "source_text" /\ Compatible("SourceText", expected[j])
           \/ \E e \in 1..(k - 1) : \E b \in Produces(agents, wf[e]) :
                 b[1] = step.inputs[j] /\ Compatible(b[2], expected[j])

\* the well-formed workflows, as the properties list them
WellFormedAsListed(agents, wf) ==
    /\ \A k \in 1..Len(wf) : Registered(agents, wf[k]) /\ CountsMatch(agents, wf[k])
    /\ \A k \in 1..Len(wf) : InputsTraceable(agents, wf, k)
    /\ \A k \in 1..Len(wf) : SingleAssignment(wf, k)
    /\ \E k \in 1..Len(wf) : <<"final_transcript", "Transcript">> \in Produces(agents, wf[k])
                             /\ "final_transcript" \in OutputNames(wf[k])

\* a condition is one IF or WHILE key naming a Bool produced by this step's
\* outputs or by an earlier step; an iterate value is an integer
ConditionOk(agents, wf, k) ==
    "condition" \in DOMAIN wf[k] =>
        /\ Cardinality(DOMAIN wf[k].condition) = 1
        /\ DOMAIN wf[k].condition \subseteq {"IF", "WHILE"}
        /\ \A key \in DOMAIN wf[k].condition :
              \/ \E e \in 1..(k - 1) : <<wf[k].condition[key], "Bool">> \in Produces(agents, wf[e])
              \/ \E j \in 1..Len(wf[k].outputs) :
                    /\ wf[k].outputs[j] = wf[k].condition[key]
                    /\ agents[wf[k].agent].output_types[j] = "Bool"
IterateOk(step) == "iterate" \in DOMAIN step => step.iterate.pytype = "int"

WellFormed(agents, wf) ==
    /\ WellFormedAsListed(agents, wf)
    /\ \A k \in 1..Len(wf) : ConditionOk(agents, wf, k) /\ IterateOk(wf[k])

(***************************************************************************)
(* C1.  Original statement: check_workflow raises nothing for every        *)
(* workflow in which each step names a registered agent with matching      *)
(* input and output counts, every input is 'source_text' or produced by an *)
(* earlier step with a compatible class, every output name is bound once,  *)
(* and 'final_transcript' is an output of class Transcript.  It fails on   *)
(* such a workflow whose last step carries a condition on a variable that  *)
(* is not a Bool.                                                          *)
(***************************************************************************)
C1_AsListedNeverFails ==
    WellFormedAsListed(agents_dict, workflow) => ~CheckFailed

\* C1 as amended: check_workflow raises nothing for every workflow that is
\* well-formed as listed and whose conditions (one IF or WHILE key naming a
\* bound Bool variable) and iterate values (integers) are well-formed too;
\* in particular it raises nothing on the IraPod workflow.
C1_WellFormedNeverFails ==
    /\ WellFormed(agents_dict, workflow) => ~CheckFailed
    /\ (agents_dict = IraPodAgents /\ workflow = IraPodWorkflow) => ~CheckFailed

\* C1 witness: check_workflow has returned on the IraPod workflow, which is well-formed
C1_Witness ==
    /\ CheckPassed
    /\ workflow = IraPodWorkflow
    /\ WellFormed(agents_dict, workflow)

\* C1 second case reached: a generated well-formed workflow passed the check
C1_WitnessGenerated ==
    /\ CheckPassed
    /\ agents_dict = SampleAgents
    /\ WellFormed(agents_dict, workflow)

(***************************************************************************)
(* C2.  If check_workflow succeeded on a workflow without condition        *)
(* entries, run_workflow on it never looks up a name that is not bound in  *)
(* inputs: neither a step's input names nor 'final_transcript'.  (Every    *)
(* agent run of the model returns normally when given its inputs.)         *)
(***************************************************************************)
NoConditions(wf) == \A k \in 1..Len(wf) : "condition" \notin DOMAIN wf[k]

C2_CheckedRunFindsItsNames ==
    (CheckPassed /\ NoConditions(workflow))
        => error \notin {"KeyError:input", "KeyError:final"}

(***************************************************************************)
(* C3.  check_workflow fails on any workflow in which some step lists an   *)
(* input name that is neither 'source_text' nor a name bound as an output  *)
(* (or derived '_iter' name) by an earlier step.                           *)
(***************************************************************************)
HasUndefinedInput(wf) ==
    \E k \in 1..Len(wf) : \E name \in InputNames(wf[k]) :
        /\ name # "source_text"
        /\ \A e \in 1..(k - 1) : name \notin OutputNames(wf[e]) \cup DerivedNames(wf[e])

C3_UndefinedInputRejected ==
    HasUndefinedInput(workflow) => ~CheckPassed

(***************************************************************************)
(* C4.  When an input name of the step being checked is already bound,     *)
(* check_workflow accepts it iff the bound class and the expected class    *)
(* are the same or one is a subclass of the other, and fails with a type   *)
(* mismatch otherwise; a Bool is never accepted for a textual class nor a  *)
(* textual class for a Bool.                                               *)
(***************************************************************************)
\* some already bound input of step ci has a class incompatible with the expected one
BoundInputIncompatible ==
    LET step == workflow[ci]
        expected == agents_dict[step.agent].expected_input_types
    IN  \E j \in 1..Len(step.inputs) :
           /\ step.inputs[j] \in DOMAIN defined_inputs
           /\ ~Compatible(defined_inputs[step.inputs[j]], expected[j])

\* some already bound input of step ci crosses the two roots
BoundInputCrossesRoots ==
    LET step == workflow[ci]
        expected == agents_dict[step.agent].expected_input_types
    IN  \E j \in 1..Len(step.inputs) :
           /\ step.inputs[j] \in DOMAIN defined_inputs
           /\ (defined_inputs[step.inputs[j]] = "Bool") # (expected[j] = "Bool")

C4_Reaches ==
    /\ AtCheckStep
    /\ Registered(agents_dict, workflow[ci])
    /\ ~InputCountMismatch(workflow[ci], agents_dict[workflow[ci].agent])

C4_BoundInputTypeChecked ==
    [][C4_Reaches =>
         /\ BoundInputIncompatible => (CheckFailed' /\ error' = "TypeMismatch")
         /\ ~BoundInputIncompatible => error' # "TypeMismatch"
         /\ BoundInputCrossesRoots => CheckFailed']_vars

(***************************************************************************)
(* C5.  After the pass over the steps check_workflow fails if              *)
(* 'final_transcript' is not bound, fails if it is bound to any class      *)
(* other than exactly Transcript (a subclass included), and succeeds only  *)
(* when it is bound to exactly Transcript.                                 *)
(***************************************************************************)
\* the pass over the steps completed and the final check has been made
FinalCheckMade == ci = Len(workflow) + 1 /\ pc # "check"

C5_TerminalExactlyTranscript ==
    FinalCheckMade =>
        /\ CheckFailed <=> ~("final_transcript" \in DOMAIN defined_inputs
                              /\ defined_inputs["final_transcript"] = "Transcript")
        /\ "final_transcript" \notin DOMAIN defined_inputs => error = "FinalUndefined"
        /\ ("final_transcript" \in DOMAIN defined_inputs
              /\ defined_inputs["final_transcript"] # "Transcript")
           => error = "FinalNotTranscript"

\* C5 witness: the final check rejected a 'final_transcript' bound to a subclass of Transcript
C5_Witness ==
    /\ FinalCheckMade
    /\ CheckFailed
    /\ "final_transcript" \in DOMAIN defined_inputs
    /\ defined_inputs["final_transcript"] = "PersonalizedTranscript"

\* C5 further cases reached: rejected as unbound; accepted as exactly Transcript
C5_WitnessUnbound ==
    FinalCheckMade /\ CheckFailed /\ "final_transcript" \notin DOMAIN defined_inputs
C5_WitnessAccepted ==
    FinalCheckMade /\ ~CheckFailed /\ defined_inputs["final_transcript"] = "Transcript"

(***************************************************************************)
(* C6.  If check_workflow succeeds, some step of the workflow declares     *)
(* 'final_transcript' among its output names.                              *)
(***************************************************************************)
C6_TerminalIsProduced ==
    CheckPassed => \E k \in 1..Len(workflow) : "final_transcript" \in OutputNames(workflow[k])

(***************************************************************************)
(* C7.  check_workflow fails whenever the step being checked declares an   *)
(* output name that is already bound at that point: the seed, an input or  *)
(* output of an earlier step, a derived '_iter' name of an earlier         *)
(* iterated step (all in defined_inputs before the step), an input of the  *)
(* same step, or an earlier output of the same step.                       *)
(***************************************************************************)
OutputAlreadyBound(tbl, step) ==
    \E j \in 1..Len(step.outputs) :
        \/ step.outputs[j] \in DOMAIN tbl
        \/ step.outputs[j] \in InputNames(step)
        \/ \E e \in 1..(j - 1) : step.outputs[e] = step.outputs[j]

C7_BoundOutputRejected ==
    [][(AtCheckStep /\ OutputAlreadyBound(defined_inputs, workflow[ci])) => CheckFailed']_vars

\* C7 witness: the check failed on an output that an earlier iterated step derived
C7_Witness ==
    /\ CheckFailed
    /\ error = "AlreadyUsed"
    /\ \E e \in 1..(ci - 1) :
          OutputNames(workflow[ci]) \cap DerivedNames(workflow[e]) # {}

\* C7 further cases reached: the seed as an output; an output repeated in one step
C7_WitnessSeed ==
    CheckFailed /\ error = "AlreadyUsed" /\ "source_text" \in OutputNames(workflow[ci])
C7_WitnessSameStep ==
    /\ CheckFailed /\ error = "AlreadyUsed" /\ ci = 1
    /\ "source_text" \notin OutputNames(workflow[ci])

(***************************************************************************)
(* C8.  check_workflow fails for a step whose number of input names        *)
(* differs from the length of its agent's expected_input_types, and for a  *)
(* step whose number of output names differs from the length of the        *)
(* agent's output_types.                                                   *)
(***************************************************************************)
C8_CountMismatchRejected ==
    [][(AtCheckStep /\ Registered(agents_dict, workflow[ci])
          /\ ~CountsMatch(agents_dict, workflow[ci])) => CheckFailed']_vars

\* C8 witness: the check failed on a step with the right number of inputs
\* and fewer outputs than its agent produces
C8_Witness ==
    /\ CheckFailed
    /\ error = "OutputCount"
    /\ Len(workflow[ci].outputs) < Len(agents_dict[workflow[ci].agent].output_types)

\* C8 further cases reached: too many inputs, too few inputs
C8_WitnessInputs ==
    /\ CheckFailed /\ error = "InputCount"
    /\ Len(workflow[ci].inputs) > Len(agents_dict[workflow[ci].agent].expected_input_types)
C8_WitnessFewInputs ==
    /\ CheckFailed /\ error = "InputCount"
    /\ Len(workflow[ci].inputs) < Len(agents_dict[workflow[ci].agent].expected_input_types)

(***************************************************************************)
(* C9.  For a step with iterate = N that run_workflow has completed, the   *)
(* step stored, for each declared output name, exactly the N names         *)
(* '<output>_iter0' .. '<output>_iter(N-1)', each once and each holding    *)
(* the result of that iteration at that output position, and stored        *)
(* nothing under the bare output name.                                     *)
(***************************************************************************)
\* the stores made by the step with step_number k
WritesOf(k) == {w \in 1..Len(writes) : writes[w].step = k}

C9_IterateBindsDerivedNames ==
    \A k \in 0..(ri - 1) :
        LET step == workflow[k + 1] IN
        ("iterate" \in DOMAIN step /\ pc # "main") =>
            LET N == step.iterate.int IN
            /\ \A j \in 1..Len(step.outputs) : \A i \in 0..(N - 1) :
                  /\ Cardinality({w \in WritesOf(k) :
                                     writes[w].name = IterName(step.outputs[j], i)}) = 1
                  /\ \A w \in WritesOf(k) :
                        writes[w].name = IterName(step.outputs[j], i) =>
                           /\ writes[w].value.cls = agents_dict[step.agent].output_types[j]
                           /\ <<writes[w].value.step, writes[w].value.iter,
                                 writes[w].value.idx>> = <<k, i, j - 1>>
            /\ \A w \in WritesOf(k) :
                  /\ writes[w].name \notin OutputNames(step)
                  /\ \E j \in 1..Len(step.outputs) : \E i \in 0..(N - 1) :
                        writes[w].name = IterName(step.outputs[j], i)
            /\ Cardinality(WritesOf(k)) = Len(step.outputs) * (IF N > 0 THEN N ELSE 0)

\* C9 witness: run_workflow completed an iterated step with several outputs
C9_Witness ==
    \E k \in 0..(ri - 1) :
        /\ pc \in {"run", "done"}
        /\ "iterate" \in DOMAIN workflow[k + 1]
        /\ workflow[k + 1].iterate.int >= 2
        /\ Len(workflow[k + 1].outputs) >= 2
        /\ WritesOf(k) # {}

(***************************************************************************)
(* C10.  For a step with iterate = N, check_workflow additionally binds,   *)
(* for every declared output name, the N derived names '<output>_iter0' .. *)
(* '<output>_iter(N-1)', each with the class of the output, and fails if   *)
(* any derived name is already bound in the table.                         *)
(***************************************************************************)
IteratedStepChecked ==
    AtCheckStep /\ "iterate" \in DOMAIN workflow[ci] /\ workflow[ci].iterate.pytype = "int"

C10_CheckBindsDerivedNames ==
    [][IteratedStepChecked =>
         LET step == workflow[ci] IN
         /\ (DerivedNames(step) \cap (DOMAIN defined_inputs \cup InputNames(step)
                                        \cup OutputNames(step)) # {}) => CheckFailed'
         /\ ~CheckFailed' =>
               /\ \A j \in 1..Len(step.outputs) : \A i \in 0..(step.iterate.int - 1) :
                     /\ IterName(step.outputs[j], i) \in DOMAIN defined_inputs'
                     /\ defined_inputs'[IterName(step.outputs[j], i)]
                           = agents_dict[step.agent].output_types[j]
                     /\ defined_inputs'[IterName(step.outputs[j], i)]
                           = defined_inputs'[step.outputs[j]]
               /\ DOMAIN defined_inputs' =
                     DOMAIN defined_inputs \cup InputNames(step) \cup OutputNames(step)
                        \cup DerivedNames(step)]_vars

\* C10 witness: the check passed an iterated step and its derived names are bound
C10_Witness ==
    /\ pc = "check"
    /\ ci > 1
    /\ "iterate" \in DOMAIN workflow[ci - 1]
    /\ DerivedNames(workflow[ci - 1]) # {}
    /\ DerivedNames(workflow[ci - 1]) \subseteq DOMAIN defined_inputs

\* C10 further case reached: the check failed on a derived name that was already bound
C10_WitnessCollision ==
    CheckFailed /\ error = "IterAlreadyDefined"

(***************************************************************************)
(* C11.  Original statement: every agent run receives, in declared order,  *)
(* exactly the values bound to the step's input names at the time of the   *)
(* run.  It fails for a later iteration of an iterated step when an        *)
(* earlier iteration of the same step stored a result under one of the     *)
(* step's input names: the run still receives the value looked up before   *)
(* the first iteration.                                                    *)
(***************************************************************************)
\* this step of the model made an agent run
RunMade == Len(calls') = Len(calls) + 1
\* the run just made, the step it belongs to and its iteration
LastCall == calls[Len(calls)]
RunningStep == workflow[ri + 1]
RunningIteration == IF pc = "iterating" THEN iteration ELSE NoIteration
\* the values bound to the input names of the running step
BoundInputs == [k \in 1..Len(RunningStep.inputs) |-> inputs[RunningStep.inputs[k]]]

C11_RunReceivesCurrentBindings ==
    [][RunMade => LastCall'.args = BoundInputs]_vars

\* C11 as amended: every agent run receives, in declared order, exactly the
\* values that were bound to the step's input names when the step began (one
\* lookup per step, made before its first run: the seed or results returned by
\* earlier runs); each result a run returns is stored under the output name at
\* the same position (with the '_iter<i>' suffix in iteration i); run_workflow
\* returns the value bound to 'final_transcript' after the last step; and for
\* a two-step chain A, B it returns the value B's run returned, that run
\* having been called with the values A's run returned.
NameStoredFor(step, j, iter) ==
    IF iter = NoIteration THEN step.outputs[j] ELSE IterName(step.outputs[j], iter)

RunGetsStepBindings ==
    /\ (RunMade /\ pc = "run") => LastCall'.args = BoundInputs
    /\ (pc = "run" /\ pc' = "iterating") => agent_inputs' = BoundInputs
    /\ pc = "iterating" => (RunMade /\ LastCall'.args = agent_inputs
                              /\ agent_inputs' = agent_inputs)

ResultsStoredInPosition ==
    (RunMade /\ error' = NoError) =>
        LET step == RunningStep
            agent == agents_dict[step.agent]
        IN  /\ Len(writes') = Len(writes) + Len(step.outputs)
            /\ \A j \in 1..Len(step.outputs) :
                  LET w == writes'[Len(writes) + j] IN
                  /\ w.name = NameStoredFor(step, j, RunningIteration)
                  /\ w.value.cls = agent.output_types[j]
                  /\ <<w.value.step, w.value.iter, w.value.idx>>
                        = <<ri, RunningIteration, j - 1>>
                  /\ (\A j2 \in (j + 1)..Len(step.outputs) :
                         NameStoredFor(step, j2, RunningIteration) # w.name)
                     => inputs'[w.name] = w.value
            /\ \A name \in DOMAIN inputs :
                  (\A j \in 1..Len(step.outputs) :
                      NameStoredFor(step, j, RunningIteration) # name)
                  => (name \in DOMAIN inputs' /\ inputs'[name] = inputs[name])

ReturnsTerminalBinding ==
    pc = "done" =>
        /\ result = inputs["final_transcript"]
        /\ \E w \in 1..Len(writes) :
              /\ writes[w].name = "final_transcript"
              /\ \A w2 \in (w + 1)..Len(writes) : writes[w2].name # "final_transcript"
              /\ result = writes[w].value

\* the workflow is a chain A, B: B's inputs are outputs of A, and B outputs
\* 'final_transcript'
TwoStepChain ==
    /\ Len(workflow) = 2
    /\ "iterate" \notin DOMAIN workflow[1] /\ "iterate" \notin DOMAIN workflow[2]
    /\ InputNames(workflow[2]) \subseteq OutputNames(workflow[1])
    /\ "final_transcript" \in OutputNames(workflow[2])
    /\ \A k \in {1, 2} : \A j1, j2 \in 1..Len(workflow[k].outputs) :
          workflow[k].outputs[j1] = workflow[k].outputs[j2] => j1 = j2

ChainReturnsLastResult ==
    (pc = "done" /\ TwoStepChain) =>
        /\ Len(calls) = 2
        /\ \A k \in 1..Len(workflow[2].inputs) :
              /\ calls[2].args[k].step = 0
              /\ calls[2].args[k].idx = IndexOf(workflow[1].outputs, workflow[2].inputs[k]) - 1
              /\ calls[2].args[k].cls
                    = agents_dict[workflow[1].agent].output_types[calls[2].args[k].idx + 1]
        /\ result.step = 1
        /\ result.idx = IndexOf(workflow[2].outputs, "final_transcript") - 1

C11_ValuesThreaded ==
    /\ [][RunGetsStepBindings /\ ResultsStoredInPosition]_vars
    /\ [](ReturnsTerminalBinding /\ ChainReturnsLastResult)

\* C11 witness: a checked two-step chain ran to its end and returned
C11_Witness ==
    /\ pc = "done"
    /\ CheckPassed
    /\ TwoStepChain
    /\ result.step = 1

\* C11 further case reached: a later iteration ran after an earlier one of the
\* same step had rebound one of the step's input names
C11_WitnessRebound ==
    /\ pc = "iterating"
    /\ iteration > 0
    /\ agent_inputs # BoundInputs

(***************************************************************************)
(* C12.  For a step carrying condition {'IF': v}, run_workflow does not    *)
(* invoke the agent's run and binds none of the step's output names when   *)
(* the value bound to v is false.                                          *)
(***************************************************************************)
\* run_workflow is at a step whose IF guard is bound to a Bool holding False
AtStepGuardedFalse ==
    /\ pc = "run"
    /\ ri < Len(workflow)
    /\ "condition" \in DOMAIN RunningStep
    /\ DOMAIN RunningStep.condition = {"IF"}
    /\ RunningStep.condition["IF"] \in DOMAIN inputs
    /\ inputs[RunningStep.condition["IF"]].cls = "Bool"
    /\ inputs[RunningStep.condition["IF"]].value = PyBool(FALSE)

C12_FalseGuardSkipsStep ==
    [][AtStepGuardedFalse => (~RunMade /\ inputs' = inputs /\ writes' = writes)]_vars

(***************************************************************************)
(* C13.  check_workflow fails for a step with a condition when the         *)
(* condition does not consist of exactly one key that is 'IF' or 'WHILE',  *)
(* when the named guard variable is not bound in the table, or when the    *)
(* guard variable is bound to any class other than Bool.  (The table is    *)
(* the one the condition is checked against: the bindings made before the  *)
(* step and those of the step's own inputs and outputs.)                   *)
(***************************************************************************)
\* the class the name v is bound to once the inputs and outputs of the step
\* (whose counts match its agent's) are bound; "unbound" if it is not
ClassAtCondition(tbl, agents, step, v) ==
    IF v \in DOMAIN tbl THEN tbl[v]
    ELSE IF v \in InputNames(step)
    THEN agents[step.agent].expected_input_types[
            CHOOSE i \in 1..Len(step.inputs) :
                step.inputs[i] = v /\ \A j \in 1..(i - 1) : step.inputs[j] # v]
    ELSE IF v \in OutputNames(step)
    THEN agents[step.agent].output_types[
            CHOOSE i \in 1..Len(step.outputs) :
                step.outputs[i] = v /\ \A j \in 1..(i - 1) : step.outputs[j] # v]
    ELSE "unbound"

MalformedCondition(step) ==
    \/ Cardinality(DOMAIN step.condition) # 1
    \/ ~(DOMAIN step.condition \subseteq {"IF", "WHILE"})

BadGuard(tbl, agents, step) ==
    /\ ~MalformedCondition(step)
    /\ CountsMatch(agents, step)
    /\ \E key \in DOMAIN step.condition :
          ClassAtCondition(tbl, agents, step, step.condition[key]) # "Bool"

C13_BadConditionRejected ==
    [][(AtCheckStep /\ Registered(agents_dict, workflow[ci])
          /\ "condition" \in DOMAIN workflow[ci]
          /\ (MalformedCondition(workflow[ci])
                \/ BadGuard(defined_inputs, agents_dict, workflow[ci])))
        => CheckFailed']_vars

\* C13 witness: the check failed on a guard variable bound to a class that is not Bool
C13_Witness ==
    /\ CheckFailed
    /\ error = "ConditionNotBool"
    /\ \E key \in DOMAIN workflow[ci].condition :
          /\ workflow[ci].condition[key] \in DOMAIN defined_inputs
          /\ defined_inputs[workflow[ci].condition[key]] # "Bool"

\* C13 further cases reached: two keys, no key, a key that is neither IF nor
\* WHILE, a guard variable that is not bound; and a well-formed WHILE accepted
C13_WitnessTwoKeys ==
    CheckFailed /\ error = "BadCondition" /\ Cardinality(DOMAIN workflow[ci].condition) = 2
C13_WitnessNoKey ==
    CheckFailed /\ error = "BadCondition" /\ DOMAIN workflow[ci].condition = {}
C13_WitnessOtherKey ==
    CheckFailed /\ error = "BadCondition" /\ DOMAIN workflow[ci].condition = {"UNLESS"}
C13_WitnessUnbound ==
    /\ CheckFailed /\ error = "ConditionUndefined"
    /\ \E key \in DOMAIN workflow[ci].condition :
          workflow[ci].condition[key] \notin DOMAIN defined_inputs
C13_WitnessWhileAccepted ==
    /\ pc = "check" /\ ci > 1
    /\ "condition" \in DOMAIN workflow[ci - 1]
    /\ DOMAIN workflow[ci - 1].condition = {"WHILE"}

(***************************************************************************)
(* C14.  A run call whose output_file already exists makes no LLM call and *)
(* returns values equal (same class, same .value, same positions) to those *)
(* returned by the run call that wrote that file, whenever that call       *)
(* returned; consequently, once a run_workflow call has returned, every    *)
(* later run_workflow call over the same output directory makes no LLM     *)
(* call and returns a final transcript equal to the earlier one.           *)
(***************************************************************************)
EqualValue(v1, v2) == v1.cls = v2.cls /\ v1.value = v2.value
EqualValues(vs1, vs2) ==
    /\ Len(vs1) = Len(vs2)
    /\ \A k \in 1..Len(vs1) : EqualValue(vs1[k], vs2[k])

CachedRunRepeatsWriter ==
    \A i \in 1..Len(trace) :
        trace[i].existed =>
            /\ trace[i].asked = 0
            /\ trace[i].err = NoError
            /\ \E j \in 1..(i - 1) :
                  trace[j].output_file = trace[i].output_file /\ ~trace[j].existed
            /\ \A j \in 1..(i - 1) :
                  (trace[j].output_file = trace[i].output_file /\ ~trace[j].existed
                     /\ trace[j].err = NoError)
                  => EqualValues(trace[i].outputs, trace[j].outputs)

RerunIsFree ==
    \A k \in 1..Len(finished) :
        finished[k].error = NoError =>
            /\ llm_calls = finished[k].llm_calls
            /\ \A i \in 1..Len(trace) : trace[i].execution > k => trace[i].existed
            /\ pc # "run_failed"
            /\ \A m \in (k + 1)..Len(finished) :
                  /\ finished[m].error = NoError
                  /\ EqualValue(finished[m].result, finished[k].result)

C14_MemoizedRun == CachedRunRepeatsWriter /\ RerunIsFree

\* C14 witness: a checked workflow was run twice over one directory; the
\* first call asked the LLM, the second returned having loaded every output
C14_Witness ==
    /\ pc = "done"
    /\ CheckPassed
    /\ Len(finished) = 2
    /\ finished[1].error = NoError
    /\ finished[1].llm_calls >= 2
    /\ \E i \in 1..Len(trace) : trace[i].execution = 2 /\ trace[i].existed
                                 /\ Len(trace[i].outputs) = 3

\* C14 further case reached: a run found a file left by a run that raised
C14_WitnessLeftByFailedRun ==
    \E i \in 1..Len(trace) : \E j \in 1..(i - 1) :
        /\ trace[i].existed
        /\ trace[j].output_file = trace[i].output_file
        /\ ~trace[j].existed /\ trace[j].err # NoError

(***************************************************************************)
(* C15.  In the typed pipeline (main_typed.main, which calls               *)
(* check_workflow first) no agent run is ever invoked unless               *)
(* check_workflow has already completed successfully: check_workflow       *)
(* itself invokes no agent run (nor the LLM, nor writes a file), and if it *)
(* raises, run_workflow is never called.                                   *)
(***************************************************************************)
\* main_typed.main is what is executing: check_workflow has been called
InTypedPipeline == ci > 0
\* run_workflow has not been called and no agent has run
NothingRun == execution = 0 /\ trace = <<>> /\ llm_calls = 0 /\ files = EmptyDirectory

C15_NoRunBeforeCheckPasses ==
    /\ []((InTypedPipeline /\ ~CheckPassed) => NothingRun)
    /\ []((pc \in {"check", "check_failed"}) => NothingRun)
    /\ [][pc = "check_failed" => pc' = "check_failed"]_vars

\* C15 witness: in the typed pipeline an agent has run, after the check passed
C15_Witness ==
    /\ InTypedPipeline
    /\ CheckPassed
    /\ trace # <<>>
    /\ agents_dict = IraPodAgents

\* C15 further case reached: the check raised and nothing was run
C15_WitnessCheckRaised ==
    CheckFailed /\ NothingRun

(***************************************************************************)
(* C16.  If an agent's run raises during run_workflow, the error           *)
(* propagates out of run_workflow: within that run_workflow call the       *)
(* failing run is not invoked again, no later iteration or step is         *)
(* invoked, and the call returns no value.                                 *)
(***************************************************************************)
C16_RunFailurePropagates ==
    \A i \in 1..Len(trace) :
        trace[i].err # NoError =>
            /\ \A j \in (i + 1)..Len(trace) : trace[j].execution > trace[i].execution
            /\ Len(finished) >= trace[i].execution
            /\ finished[trace[i].execution] = Outcome(NoValue, trace[i].err,
                                                       finished[trace[i].execution].llm_calls)
            /\ execution = trace[i].execution =>
                  (pc = "run_failed" /\ error = trace[i].err /\ result = NoValue)

\* C16 witness: the first iteration of an iterated step that is not the last
\* step raised, and run_workflow ended there
C16_Witness ==
    /\ pc = "run_failed"
    /\ trace # <<>>
    /\ trace[Len(trace)].err # NoError
    /\ trace[Len(trace)].execution = execution
    /\ ri + 1 < Len(workflow)
    /\ "iterate" \in DOMAIN workflow[ri + 1]
    /\ iteration = 0

\* C16 further case reached: a run raised after earlier steps had stored outputs
C16_WitnessAfterStores ==
    /\ pc = "run_failed"
    /\ trace # <<>>
    /\ trace[Len(trace)].err = "TypeError:write"
    /\ writes # <<>>
    /\ CheckPassed

(***************************************************************************)
(* C17.  check_workflow fails for a step whose agent name is not a key of  *)
(* get_agents(), with the agent-not-found error and before any arity,      *)
(* input, output, condition or iterate check of that step: the failing     *)
(* step adds nothing to the symbol table.                                  *)
(***************************************************************************)
C17_UnknownAgentRejectedFirst ==
    [][(AtCheckStep /\ ~Registered(agents_dict, workflow[ci]))
        => (CheckFailed' /\ error' = "AgentNotFound" /\ ci' = ci
            /\ defined_inputs' = defined_inputs)]_vars

\* C17 witness: the check failed on an unregistered agent whose step names an
\* input and an output that are not in the table
C17_Witness ==
    /\ CheckFailed
    /\ error = "AgentNotFound"
    /\ ~Registered(agents_dict, workflow[ci])
    /\ ci > 1
    /\ InputNames(workflow[ci]) \ DOMAIN defined_inputs # {}
    /\ OutputNames(workflow[ci]) \ DOMAIN defined_inputs # {}

(***************************************************************************)
(* C18.  Throughout check_workflow the symbol table defined_inputs only    *)
(* grows: it starts with the single entry 'source_text' -> SourceText, no  *)
(* entry is ever removed, and every name keeps the class it was first      *)
(* bound with: no step, output binding or iterate expansion overwrites an  *)
(* existing entry.                                                         *)
(***************************************************************************)
FirstIndex(seq, x) == CHOOSE i \in 1..Len(seq) : seq[i] = x /\ \A j \in 1..(i - 1) : seq[j] # x

\* the class a step binds a name with the first time it binds it: as an
\* input, else as an output, else as a derived name
FirstBoundClass(agents, step, name) ==
    IF name \in InputNames(step)
    THEN agents[step.agent].expected_input_types[FirstIndex(step.inputs, name)]
    ELSE IF name \in OutputNames(step)
    THEN agents[step.agent].output_types[FirstIndex(step.outputs, name)]
    ELSE agents[step.agent].output_types[
            CHOOSE k \in 1..Len(step.outputs) :
               /\ \E i \in IterIndexes(step) : IterName(step.outputs[k], i) = name
               /\ \A k2 \in 1..(k - 1) :
                     \A i \in IterIndexes(step) : IterName(step.outputs[k2], i) # name]

TableStartsWithSeed ==
    (pc = "check" /\ ci = 1) => defined_inputs = ("source_text" :> "SourceText")

TableOnlyGrows ==
    pc # "main" =>
        /\ \A name \in DOMAIN defined_inputs :
              name \in DOMAIN defined_inputs' /\ defined_inputs'[name] = defined_inputs[name]
        /\ \A name \in DOMAIN defined_inputs' \ DOMAIN defined_inputs :
              /\ AtCheckStep
              /\ name \in InputNames(workflow[ci]) \cup OutputNames(workflow[ci])
                             \cup DerivedNames(workflow[ci])
              /\ defined_inputs'[name] = FirstBoundClass(agents_dict, workflow[ci], name)

C18_TableGrowsMonotonically ==
    /\ []TableStartsWithSeed
    /\ [][TableOnlyGrows]_vars

\* C18 witness: the table has grown by a forward-bound input, by outputs and
\* by derived names, over several steps
C18_Witness ==
    /\ pc = "check"
    /\ ci > 2
    /\ \E k \in 1..(ci - 1) :
          /\ DerivedNames(workflow[k]) # {}
          /\ DerivedNames(workflow[k]) \subseteq DOMAIN defined_inputs
    /\ \E k \in 1..(ci - 1) : \E name \in InputNames(workflow[k]) :
          /\ name # "source_text"
          /\ \A e \in 1..(k - 1) : name \notin OutputNames(workflow[e]) \cup DerivedNames(workflow[e])
    /\ Cardinality(DOMAIN defined_inputs) >= 6

(***************************************************************************)
(* C19.  When an input name of the step being checked is not yet bound,    *)
(* check_workflow binds it to the agent's expected class for that position *)
(* and goes on to the checks of the outputs; a step (the same or a later   *)
(* one) that declares such a name as an output fails, as a duplicate       *)
(* binding when its counts match; so a workflow that consumes a name       *)
(* before the step that produces it is rejected.                           *)
(***************************************************************************)
\* name is bound in tbl although no step before position k produced it: an
\* earlier step bound it as its input
ForwardBound(tbl, wf, k, name) ==
    /\ name \in DOMAIN tbl
    /\ name # "source_text"
    /\ \A e \in 1..(k - 1) : name \notin OutputNames(wf[e]) \cup DerivedNames(wf[e])

UnboundInputIsBound ==
    (AtCheckStep /\ Registered(agents_dict, workflow[ci])
       /\ ~InputCountMismatch(workflow[ci], agents_dict[workflow[ci].agent])) =>
        /\ \A name \in InputNames(workflow[ci]) \ DOMAIN defined_inputs :
              /\ name \in DOMAIN defined_inputs'
              /\ defined_inputs'[name]
                    = agents_dict[workflow[ci].agent].expected_input_types[
                         FirstIndex(workflow[ci].inputs, name)]
        /\ error' \in {NoError, "OutputCount", "AlreadyUsed", "BadCondition",
                       "ConditionUndefined", "ConditionNotBool", "IterateNotInt",
                       "IterAlreadyDefined"}

ProducerOfConsumedNameFails ==
    (AtCheckStep /\ Registered(agents_dict, workflow[ci])
       /\ \E name \in OutputNames(workflow[ci]) :
             \/ ForwardBound(defined_inputs, workflow, ci, name)
             \/ name \in InputNames(workflow[ci]) \ DOMAIN defined_inputs) =>
        /\ CheckFailed'
        /\ CountsMatch(agents_dict, workflow[ci]) => error' = "AlreadyUsed"

\* some step consumes a name that nothing before it binds and that the same
\* or a later step declares as an output
ConsumedBeforeProduced(wf) ==
    \E k \in 1..Len(wf) : \E name \in InputNames(wf[k]) :
        /\ name # "source_text"
        /\ \A e \in 1..(k - 1) :
              name \notin InputNames(wf[e]) \cup OutputNames(wf[e]) \cup DerivedNames(wf[e])
        /\ \E e \in k..Len(wf) : name \in OutputNames(wf[e])

C19_ForwardReferenceBlocksProducer ==
    /\ [][UnboundInputIsBound /\ ProducerOfConsumedNameFails]_vars
    /\ [](ConsumedBeforeProduced(workflow) => ~CheckPassed)

\* C19 witness: a later step failed as a duplicate binding on a name that an
\* earlier step had consumed
C19_Witness ==
    /\ CheckFailed
    /\ error = "AlreadyUsed"
    /\ ci > 1
    /\ \E name \in OutputNames(workflow[ci]) :
          /\ ForwardBound(defined_inputs, workflow, ci, name)
          /\ \E k \in 1..(ci - 1) : name \in InputNames(workflow[k])

\* C19 further cases reached: a step failed on its own unbound input declared
\* as its output; a forward-bound input was accepted and the check passed
C19_WitnessSameStep ==
    /\ CheckFailed
    /\ error = "AlreadyUsed"
    /\ \E name \in OutputNames(workflow[ci]) \cap InputNames(workflow[ci]) :
          ForwardBound(defined_inputs, workflow, ci, name)
          /\ \A k \in 1..(ci - 1) : name \notin InputNames(workflow[k])
C19_WitnessAccepted ==
    /\ CheckPassed
    /\ \E name \in DOMAIN defined_inputs : ForwardBound(defined_inputs, workflow,
                                                        Len(workflow) + 1, name)

(***************************************************************************)
(* C20.  run_workflow invokes the agent runs one at a time in the order of *)
(* the workflow list, the iterations of a step with iterate = N in the     *)
(* order 0..N-1 and all before the next step; an execution that returns    *)
(* has invoked each step that is not iterated exactly once and each step   *)
(* with iterate = N exactly N times (an execution that raises has invoked  *)
(* the runs up to the one that raised).  N is a count, N >= 0: a step      *)
(* whose iterate is a negative integer is not invoked at all.              *)
(***************************************************************************)
\* the invocations the claim gives to the step at list position k (0-based):
\* <<k, i>> for i = 0..N-1, or <<k, NoIteration>> once
InvocationsOf(step, k) ==
    IF "iterate" \in DOMAIN step
    THEN IF step.iterate.pytype = "int" /\ step.iterate.int > 0
         THEN [i \in 1..step.iterate.int |-> <<k, i - 1>>]
         ELSE <<>>
    ELSE << <<k, NoIteration>> >>

RECURSIVE Schedule(_, _)
Schedule(wf, k) ==
    IF k > Len(wf) THEN <<>> ELSE InvocationsOf(wf[k], k - 1) \o Schedule(wf, k + 1)

\* the invocations made so far by the current execution of run_workflow
Invoked == [k \in 1..Len(calls) |-> <<calls[k].step, calls[k].iter>>]

IsPrefix(s, t) == Len(s) <= Len(t) /\ \A k \in 1..Len(s) : s[k] = t[k]

TimesInvoked(k) == Cardinality({n \in 1..Len(calls) : calls[n].step = k})

InvokedInListOrder == IsPrefix(Invoked, Schedule(workflow, 1))

ReturnedAfterEveryInvocation ==
    pc = "done" =>
        /\ Invoked = Schedule(workflow, 1)
        /\ \A k \in 1..Len(workflow) :
              TimesInvoked(k - 1) = IF "iterate" \notin DOMAIN workflow[k] THEN 1
                                    ELSE IF workflow[k].iterate.int >= 0
                                    THEN workflow[k].iterate.int ELSE 0

\* a step of the program makes at most one agent run, and an execution that
\* raised made its last run in the step that raised or made none in it
OneAtATime ==
    \/ calls' = calls
    \/ calls' = <<>> /\ execution' = execution + 1
    \/ Len(calls') = Len(calls) + 1 /\ SubSeq(calls', 1, Len(calls)) = calls

C20_RunsInListOrder ==
    /\ [](InvokedInListOrder /\ ReturnedAfterEveryInvocation)
    /\ [][OneAtATime]_vars

\* C20 witness: run_workflow returned after an iterated step that is followed
\* by another step
C20_Witness ==
    /\ pc = "done"
    /\ \E k \in 1..(Len(workflow) - 1) :
          /\ "iterate" \in DOMAIN workflow[k]
          /\ TimesInvoked(k - 1) = workflow[k].iterate.int
          /\ TimesInvoked(k - 1) >= 2
          /\ TimesInvoked(k) >= 1

\* C20 further cases reached: an execution raised between two iterations; a
\* second execution returned
C20_WitnessRaisedInLoop ==
    /\ pc = "run_failed"
    /\ calls # <<>>
    /\ calls[Len(calls)].iter = 0
    /\ Len(Schedule(workflow, 1)) > Len(calls)
C20_WitnessSecondExecution ==
    /\ pc = "done"
    /\ execution = 2
    /\ Len(finished) = 2
    /\ Len(calls) >= 3

(***************************************************************************)
(* C21.  Within one execution of run_workflow the output_file names passed *)
(* to run are pairwise distinct over the (step position, iteration index)  *)
(* pairs, and a name is determined by output_dir, the position of the step *)
(* in the list, the agent name and the iteration index: it does not depend *)
(* on the values passed, on the directory contents or on the execution.    *)
(***************************************************************************)
OutputFilesDistinct ==
    \A m, n \in 1..Len(calls) :
        (m # n) =>
            /\ <<calls[m].step, calls[m].iter>> # <<calls[n].step, calls[n].iter>>
            /\ calls[m].output_file # calls[n].output_file

\* the agent runs of execution e, in the order they were made
RECURSIVE RunsOf(_, _)
RunsOf(log, e) ==
    IF log = <<>> THEN <<>>
    ELSE IF Head(log).execution = e THEN <<Head(log)>> \o RunsOf(Tail(log), e)
    ELSE RunsOf(Tail(log), e)

\* two runs at the same position, agent and iteration get the same name, within
\* and across executions
OutputFileDependsOnPosition ==
    /\ \A m, n \in 1..Len(calls) :
          (/\ calls[m].step = calls[n].step
           /\ calls[m].agent = calls[n].agent
           /\ calls[m].iter = calls[n].iter) => calls[m].output_file = calls[n].output_file
    /\ \A e \in 1..(execution - 1) :
          \A k \in 1..Len(calls) :
             k <= Len(RunsOf(trace, e)) =>
                RunsOf(trace, e)[k].output_file = calls[k].output_file

C21_OutputFilesDistinct == OutputFilesDistinct /\ OutputFileDependsOnPosition

\* C21 witness: an execution ran the same agent at two positions, one of them
\* iterated
C21_Witness ==
    /\ Len(calls) >= 3
    /\ \E m, n \in 1..Len(calls) :
          /\ calls[m].agent = calls[n].agent
          /\ calls[m].step # calls[n].step
          /\ calls[m].iter = 1
          /\ calls[n].iter = NoIteration

\* C21 further case reached: a second execution ran a position again with
\* other values than the first execution passed
C21_WitnessOtherValues ==
    /\ execution = 2
    /\ \E k \in 1..Len(calls) :
          /\ k <= Len(RunsOf(trace, 1))
          /\ RunsOf(trace, 1)[k].output_file = calls[k].output_file
          /\ RunsOf(trace, 1)[k].existed # RunsOf(trace, 2)[k].existed

(***************************************************************************)
(* C22.  Original statement: all N iterations of an iterated step receive  *)
(* the same list of input values, looked up once before the first          *)
(* iteration; bindings made by earlier iterations do not change what later *)
(* iterations receive; and iterating leaves every name that was bound      *)
(* before the step unchanged.  The last part fails when a derived name     *)
(* '<output>_iter<i>' of the step was already bound: iteration i stores    *)
(* over it.                                                                *)
(***************************************************************************)
\* the name was bound when step k (0-based) of the current execution began
BoundBefore(name, k) ==
    name = "source_text" \/ \E w \in 1..Len(writes) : writes[w].step < k /\ writes[w].name = name

\* the value it was bound to then: the last store of an earlier step, else the seed
ValueBefore(name, k) ==
    LET earlier == {w \in 1..Len(writes) : writes[w].step < k /\ writes[w].name = name}
    IN  IF earlier = {} THEN SourceValue
        ELSE writes[CHOOSE w \in earlier : \A w2 \in earlier : w2 <= w].value

IterationsGetStepStartValues ==
    \A m \in 1..Len(calls) :
        calls[m].iter # NoIteration =>
            LET step == workflow[calls[m].step + 1] IN
            /\ calls[m].args = [j \in 1..Len(step.inputs) |->
                                   ValueBefore(step.inputs[j], calls[m].step)]
            /\ \A n \in 1..Len(calls) :
                  calls[n].step = calls[m].step => calls[n].args = calls[m].args

IterationKeepsEarlierBindings ==
    pc = "iterating" =>
        \A name \in DOMAIN inputs :
            BoundBefore(name, ri) => (name \in DOMAIN inputs' /\ inputs'[name] = inputs[name])

C22_IterationLeavesBindings ==
    /\ []IterationsGetStepStartValues
    /\ [][IterationKeepsEarlierBindings]_vars

\* C22 as amended: all N iterations of an iterated step receive the same list
\* of input values, the values the input names had when the step began;
\* iteration i changes no binding other than the step's derived names
\* '<output>_iter<i>'; and when check_workflow succeeded on the workflow,
\* iterating leaves every name that was bound before the step unchanged.
IterationStoresOnlyDerivedNames ==
    pc = "iterating" =>
        \A name \in DOMAIN inputs :
            (\A j \in 1..Len(RunningStep.outputs) :
                name # IterName(RunningStep.outputs[j], iteration))
            => (name \in DOMAIN inputs' /\ inputs'[name] = inputs[name])

CheckedIterationKeepsEarlierBindings == CheckPassed => IterationKeepsEarlierBindings

C22_IterationInputsFixed ==
    /\ []IterationsGetStepStartValues
    /\ [][IterationStoresOnlyDerivedNames /\ CheckedIterationKeepsEarlierBindings]_vars

\* C22 witness: the second iteration of a checked step ran with the inputs of
\* the first, after the first had stored its results
C22_Witness ==
    /\ CheckPassed
    /\ \E m \in 1..Len(calls) :
          /\ calls[m].iter = 1
          /\ calls[m].args # <<>>
          /\ \E w \in 1..Len(writes) :
                /\ writes[w].step = calls[m].step
                /\ writes[w].name = IterName(workflow[calls[m].step + 1].outputs[1], 1)
          /\ \A name \in DOMAIN inputs :
                BoundBefore(name, calls[m].step) => inputs[name] = ValueBefore(name, calls[m].step)

\* C22 further case reached: an iteration stored over a name bound by an
\* earlier step
C22_WitnessOverwritten ==
    \E w \in 1..Len(writes) :
        /\ "iterate" \in DOMAIN workflow[writes[w].step + 1]
        /\ BoundBefore(writes[w].name, writes[w].step)
        /\ inputs[writes[w].name] # ValueBefore(writes[w].name, writes[w].step)

(***************************************************************************)
(* C23.  When run_workflow reaches a step one of whose input names is not  *)
(* bound (the workflow was not checked), it raises a KeyError before       *)
(* calling the run of that step: nothing runs, nothing is stored, and no   *)
(* later step is invoked.  The KeyError is the one of the input lookup     *)
(* (line 168) when the agent of the step is registered, and the one of the *)
(* agent lookup (line 164) when it is not.                                 *)
(***************************************************************************)
AtStepWithUnboundInput ==
    /\ pc = "run"
    /\ ri < Len(workflow)
    /\ \E name \in InputNames(workflow[ri + 1]) : name \notin DOMAIN inputs

UnboundInputRaises ==
    AtStepWithUnboundInput =>
        /\ pc' = "run_failed"
        /\ error' = IF Registered(agents_dict, workflow[ri + 1])
                    THEN "KeyError:input" ELSE "KeyError:agent"
        /\ finished' = Append(finished, Outcome(NoValue, error', llm_calls))
        /\ UNCHANGED <<calls, trace, files, llm_calls, inputs, writes, ri>>

\* after run_workflow raised, the next thing that runs is another call of it
NothingAfterRaise ==
    pc = "run_failed" => (pc' = "run" /\ execution' = execution + 1 /\ calls' = <<>>)

NoLaterStepInvoked ==
    (pc = "run_failed" /\ error = "KeyError:input") =>
        /\ \A n \in 1..Len(calls) : calls[n].step < ri
        /\ \A w \in 1..Len(writes) : writes[w].step < ri

C23_UnboundInputRaises ==
    /\ [][UnboundInputRaises /\ NothingAfterRaise]_vars
    /\ []NoLaterStepInvoked

\* C23 witness: run_workflow raised on an unbound input after an earlier step
\* had run and with a later step left
C23_Witness ==
    /\ pc = "run_failed"
    /\ error = "KeyError:input"
    /\ calls # <<>>
    /\ ri + 1 < Len(workflow)
    /\ ~InTypedPipeline

\* C23 further cases reached: the step is iterated; a second execution raised
\* although the first left files in the directory
C23_WitnessIterated ==
    /\ pc = "run_failed"
    /\ error = "KeyError:input"
    /\ "iterate" \in DOMAIN workflow[ri + 1]
C23_WitnessSecondExecution ==
    /\ pc = "run_failed"
    /\ error = "KeyError:input"
    /\ execution = 2
    /\ files # EmptyDirectory

(***************************************************************************)
(* C24.  A step that carries a WHILE condition has its agent run at most   *)
(* once in an execution of run_workflow, and at most once for each         *)
(* iteration index when it is also iterated: once its run has returned,    *)
(* the loop goes on to the next iteration or the next step, whatever the   *)
(* Bool bound to the guard holds.                                          *)
(***************************************************************************)
HasWhile(step) == "condition" \in DOMAIN step /\ "WHILE" \in DOMAIN step.condition

WhileStepRunsOnce ==
    \A k \in 1..Len(workflow) :
        HasWhile(workflow[k]) =>
            \A i \in {NoIteration} \cup IterIndexes(workflow[k]) :
                Cardinality({n \in 1..Len(calls) :
                                calls[n].step = k - 1 /\ calls[n].iter = i}) <= 1

WhileStepMovesOn ==
    (RunMade /\ HasWhile(RunningStep) /\ error' = NoError) =>
        \/ pc' = "run" /\ ri' = ri + 1
        \/ pc' = "iterating" /\ ri' = ri /\ iteration' = iteration + 1

C24_WhileRunsOnce == []WhileStepRunsOnce /\ [][WhileStepMovesOn]_vars

\* the value bound to the WHILE guard of the step
WhileGuard(step) == inputs[step.condition["WHILE"]]

\* C24 witness: run_workflow returned after a step whose WHILE guard held
\* True, having run that step once
C24_Witness ==
    /\ pc = "done"
    /\ \E k \in 1..Len(workflow) :
          /\ HasWhile(workflow[k])
          /\ "iterate" \notin DOMAIN workflow[k]
          /\ WhileGuard(workflow[k]).value = PyBool(TRUE)
          /\ TimesInvoked(k - 1) = 1

\* C24 further case reached: an iterated WHILE step ran once for each index
C24_WitnessIterated ==
    \E k \in 1..Len(workflow) :
        /\ HasWhile(workflow[k])
        /\ "iterate" \in DOMAIN workflow[k]
        /\ ri >= k
        /\ TimesInvoked(k - 1) = workflow[k].iterate.int
        /\ inputs[IterName(workflow[k].condition["WHILE"], 0)].value = PyBool(TRUE)

(***************************************************************************)
(* C25.  check_workflow fails for every step whose 'iterate' value is not  *)
(* a positive integer: a value that is not an integer, zero, or a negative *)
(* integer.                                                                *)
(***************************************************************************)
IterateNotPositive(step) ==
    /\ "iterate" \in DOMAIN step
    /\ ~(step.iterate.pytype = "int" /\ step.iterate.int > 0)

C25_NonPositiveIterateRejected ==
    [][(AtCheckStep /\ IterateNotPositive(workflow[ci])) => CheckFailed']_vars

\* what the code does: of these values only the one that is not an integer
\* fails the check (lines 123-124); a step with iterate 0 or -1 that passes the
\* other checks is accepted, binds no derived name and is never run
NonIntegerIterateRejected ==
    [][(AtCheckStep /\ "iterate" \in DOMAIN workflow[ci]
          /\ workflow[ci].iterate.pytype # "int") => CheckFailed']_vars
CheckPassedNonPositiveIterate ==
    /\ CheckPassed
    /\ pc = "done"
    /\ \E k \in 1..Len(workflow) :
          /\ IterateNotPositive(workflow[k])
          /\ TimesInvoked(k - 1) = 0

(***************************************************************************)
(* C26.  GPT4O.call makes at most max_retries requests; it returns the     *)
(* content of the first request that succeeds and makes no request after   *)
(* it; it returns None exactly when max_retries requests were made and     *)
(* all failed; after the k-th failed request (k counted from 0) that is    *)
(* not the last it sleeps initial_wait * 2^k before the next request, and  *)
(* it does not sleep after the last failed request.  (Specification        *)
(* CallSpec; the content of a completed request is a string.)              *)
(***************************************************************************)
CallReturned == call_pc = "returned"
FailedRequests == {n \in 1..Len(requests) : ~requests[n].ok}
AllRequestsFailed == Len(requests) = max_retries /\ FailedRequests = 1..max_retries

AtMostMaxRetriesRequests == Len(requests) <= max_retries

\* only the last request made can have succeeded, and then the call has
\* returned its content
ReturnsFirstSuccess ==
    \A n \in 1..Len(requests) :
        requests[n].ok => /\ n = Len(requests)
                          /\ CallReturned
                          /\ call_result = requests[n].content

NoneWhenAllFailed == CallReturned => (call_result = None <=> AllRequestsFailed)

\* one sleep between two requests, none after the last failed request
SleepsBetweenRequests ==
    /\ \A k \in 1..Len(slept) : slept[k] = initial_wait * (2 ^ (k - 1))
    /\ Len(slept) <= Len(requests)
    /\ Len(requests) <= Len(slept) + 1
    /\ CallReturned => Len(slept) = IF requests = <<>> THEN 0 ELSE Len(requests) - 1
    /\ call_pc = "try" => Len(slept) = Len(requests)

\* a call that has returned does nothing more
NothingAfterReturn == CallReturned => UNCHANGED <<requests, slept, call_result>>

C26_CallRetriesWithBackoff ==
    /\ [](/\ AtMostMaxRetriesRequests
          /\ ReturnsFirstSuccess
          /\ NoneWhenAllFailed
          /\ SleepsBetweenRequests)
    /\ [][NothingAfterReturn]_vars

\* C26 witness: a call with the default max_retries returned None after five
\* failed requests and the sleeps 1, 2, 4, 8 times initial_wait
C26_Witness ==
    /\ CallReturned
    /\ max_retries = default_max_retries
    /\ call_result = None
    /\ Len(requests) = 5
    /\ slept = <<initial_wait, 2 * initial_wait, 4 * initial_wait, 8 * initial_wait>>

\* C26 further cases reached: the third request succeeded; max_retries = 0
C26_WitnessThirdSucceeds ==
    /\ CallReturned
    /\ Len(requests) = 3
    /\ requests[3].ok
    /\ call_result = requests[3].content
    /\ Len(slept) = 2
    /\ max_retries > 3
C26_WitnessNoRequest ==
    /\ CallReturned
    /\ max_retries = 0
    /\ requests = <<>>
    /\ call_result = None

(***************************************************************************)
(* C27.  When check_workflow succeeded on the workflow, an execution of    *)
(* run_workflow assigns no name of its inputs table more than once: the    *)
(* seed 'source_text' is not stored over, and every output name and every  *)
(* derived '_iter' name is stored at most once.                            *)
(***************************************************************************)
NoNameStoredTwice ==
    /\ \A w1, w2 \in 1..Len(writes) : writes[w1].name = writes[w2].name => w1 = w2
    /\ \A w \in 1..Len(writes) : writes[w].name # "source_text"
    /\ "source_text" \in DOMAIN inputs => inputs["source_text"] = SourceValue

C27_CheckedRunAssignsOnce == (CheckPassed /\ execution > 0) => NoNameStoredTwice

\* C27 witness: a checked workflow with an iterated step and another step ran
\* to its end
C27_Witness ==
    /\ CheckPassed
    /\ pc = "done"
    /\ Len(writes) >= 3
    /\ \E w \in 1..Len(writes) : writes[w].name \in DerivedNames(workflow[writes[w].step + 1])
    /\ \E w \in 1..Len(writes) : "iterate" \notin DOMAIN workflow[writes[w].step + 1]

\* C27 further case reached: without the check, an execution stored over the
\* seed
C27_WitnessUncheckedOverwrite ==
    /\ ~InTypedPipeline
    /\ \E w \in 1..Len(writes) : writes[w].name = "source_text"

(***************************************************************************)
(* C28.  When the LLM call of an agent's run returns None, the run raises  *)
(* and leaves no file at output_file, so that the next run with the same   *)
(* output_file calls the LLM again instead of loading a value.             *)
(***************************************************************************)
LastRun == trace[Len(trace)]

FailedCallRaisesAndLeavesNoFile ==
    (Len(trace') = Len(trace) + 1 /\ LastRun'.response = None) =>
        /\ LastRun'.err # NoError
        /\ LastRun'.output_file \notin DOMAIN files'

\* the run that follows, on the same output_file, a run whose LLM call
\* returned None
FollowsFailedCall(j) ==
    \E i \in 1..(j - 1) :
        /\ trace[i].response = None
        /\ trace[i].output_file = trace[j].output_file
        /\ \A k \in (i + 1)..(j - 1) : trace[k].output_file # trace[j].output_file

NextRunCallsAgain ==
    \A j \in 1..Len(trace) : FollowsFailedCall(j) => trace[j].asked = 1

C28_FailedCallLeavesNoMemo ==
    /\ [][FailedCallRaisesAndLeavesNoFile]_vars
    /\ []NextRunCallsAgain

\* what the code does: an agent that writes output_file before the write of
\* the response to the dev file raises (TypeError) with output_file holding
\* null, and the next execution loads None from it without calling the LLM;
\* the act-splitting agent raises (AttributeError) before it writes, and only
\* then the next execution calls the LLM again
CachedNoneLoaded ==
    \E j \in 1..Len(trace) :
        /\ FollowsFailedCall(j)
        /\ trace[j].asked = 0
        /\ trace[j].err = NoError
        /\ trace[j].outputs[1].value = None
SplitFailureCalledAgain ==
    \E j \in 1..Len(trace) :
        /\ FollowsFailedCall(j)
        /\ trace[j].asked = 1
        /\ ~trace[j].existed
FailedCallNotRaised ==
    \E j \in 1..Len(trace) : trace[j].response = None /\ trace[j].err = NoError

(***************************************************************************)
(* C29.  What an agent's run returns depends on its inputs only when       *)
(* output_file does not exist: two runs that find the same output_file     *)
(* return equal values whatever inputs they are given, so an execution of  *)
(* run_workflow over an output directory in which an earlier execution     *)
(* returned gives back that execution's final transcript, also with a      *)
(* different input_text.                                                   *)
(***************************************************************************)
LoadingRunsAgree ==
    \A i, j \in 1..Len(trace) :
        (/\ trace[i].output_file = trace[j].output_file
         /\ trace[i].existed
         /\ trace[j].existed) =>
            /\ trace[i].err = NoError
            /\ EqualValues(trace[i].outputs, trace[j].outputs)

\* the executions that have ended, with the input_text each was given
ReturnedWith(e, text) ==
    /\ e <= Len(finished)
    /\ finished[e].error = NoError
    /\ \E i \in 1..Len(trace) : trace[i].execution = e /\ trace[i].input_text = text

RerunReturnsEarlierTranscript ==
    \A e \in 1..(execution - 1) : \A text \in InputTexts :
        (pc = "done" /\ ReturnedWith(e, text)) =>
            /\ EqualValue(result, finished[e].result)
            /\ \A i \in 1..Len(trace) :
                  trace[i].execution = execution => (trace[i].existed /\ trace[i].asked = 0)

C29_LoadedValueIgnoresInputs == LoadingRunsAgree /\ RerunReturnsEarlierTranscript

\* C29 witness: two executions over the directory of an earlier one, with
\* another input_text than the earlier one, gave a step different inputs,
\* loaded the same file and returned the earlier final transcript
C29_Witness ==
    /\ pc = "done"
    /\ execution = 3
    /\ \E text \in InputTexts \ {input_text} : ReturnedWith(1, text)
    /\ EqualValue(result, finished[1].result)
    /\ \E i, j \in 1..Len(trace) :
          /\ trace[i].execution = 2
          /\ trace[j].execution = 3
          /\ trace[i].output_file = trace[j].output_file
          /\ trace[i].existed /\ trace[j].existed
          /\ trace[i].args # trace[j].args

(***************************************************************************)
(* C30.  main.py's run_workflow is equivalent to AgentConfig.run_workflow  *)
(* on IraPod's workflow: its n-th agent run is the n-th run of the         *)
(* workflow's schedule, of the same agent and iteration, and is passed the *)
(* values bound to the input names of that workflow step, in the step's    *)
(* order; TranscriptAgent is passed (act1, summary1, act2, summary2, act3, *)
(* summary3).  (Specification HardcodedSpec.)                              *)
(***************************************************************************)
IraPodSchedule == Schedule(IraPodWorkflow, 1)

\* the step of IraPod's workflow that the n-th run belongs to
ScheduledStep(n) == IraPodWorkflow[IraPodSchedule[n][1] + 1]

\* the values AgentConfig.run_workflow passes for that step, the names being
\* bound as they are here
ScheduledArgs(n) == [k \in 1..Len(ScheduledStep(n).inputs) |-> inputs[ScheduledStep(n).inputs[k]]]

SameRunsAsWorkflow ==
    /\ Len(calls) <= Len(IraPodSchedule)
    /\ pc = "done" => Len(calls) = Len(IraPodSchedule)
    /\ \A n \in 1..Len(calls) :
          /\ calls[n].agent = ScheduledStep(n).agent
          /\ calls[n].iter = IraPodSchedule[n][2]

SameArgumentsAsWorkflow ==
    \A n \in 1..Len(calls) : calls[n].args = ScheduledArgs(n)

C30_HardcodedPipelineEquivalent == SameRunsAsWorkflow /\ SameArgumentsAsWorkflow

\* what the code does: the agents, their order and the number of runs are
\* those of the workflow, and every agent but TranscriptAgent is passed the
\* workflow's values; TranscriptAgent is passed the three acts, then the
\* three analogies
SameArgumentsButTranscript ==
    \A n \in 1..Len(calls) :
        calls[n].agent # "TranscriptAgent" => calls[n].args = ScheduledArgs(n)
HardcodedRunsAsScheduled == SameRunsAsWorkflow /\ SameArgumentsButTranscript
TranscriptPassedActsFirst ==
    \E n \in 1..Len(calls) :
        /\ calls[n].agent = "TranscriptAgent"
        /\ calls[n].args = [k \in 1..6 |->
              inputs[<<"acts_output1", "acts_output2", "acts_output3",
                       "analogies_act1", "analogies_act2", "analogies_act3">>[k]]]
        /\ calls[n].args[2].cls = "Acts"
        /\ ScheduledArgs(n)[2].cls = "IndepthSummary"

====
